---------------------------- MODULE Spec2Model ----------------------------
(***************************************************************************)
(* Rule-based text analysis of the content editor agent                    *)
(* (src/src/agents/content_editor_agent.py).                               *)
(*                                                                         *)
(* A Python str is modelled as a sequence of one-character strings, so     *)
(* that split, strip, join, lower, "in", count and index are computed the  *)
(* way Python computes them.  A non-ASCII character of the source is one   *)
(* element written "U+XXXX".  A float that the code obtains by dividing    *)
(* two counts is modelled as an exact fraction [n |-> num, d |-> den].     *)
(***************************************************************************)
EXTENDS Integers, Sequences, FiniteSets, TLC

VARIABLES
    content,    \* the str argument handed to the operation
    args,       \* the other arguments of the call, <<>> when there is none
    op,         \* the operation that has run on it ("none" before any)
    result,     \* the record that operation returned
    passes,     \* how many times an operation's output was fed back as input
    state       \* the fields of the object a stateful operation works on, and
                \* the local variables of a call in progress

vars == <<content, args, op, result, passes, state>>

(***************************************************************************)
(* Python str primitives                                                   *)
(***************************************************************************)

\* str.isspace() for one character, over the characters the inputs use
IsSpace(c) == c \in {" ", "\n", "\t", "\r"}

SetMin(S) == CHOOSE x \in S : \A y \in S : x <= y

\* k copies of s, one after the other (s * k)
Rep(s, k) ==
    IF k <= 0 THEN <<>>
    ELSE [i \in 1..(k * Len(s)) |-> s[((i - 1) % Len(s)) + 1]]

\* t occurs in s starting at position i
MatchAt(s, t, i) ==
    /\ i >= 1
    /\ i + Len(t) - 1 <= Len(s)
    /\ \A k \in 1..Len(t) : s[i + k - 1] = t[k]

\* str.find(t, i): least position >= i where t occurs in s, 0 when none
Find(s, t, i) ==
    LET M == {j \in i..(Len(s) - Len(t) + 1) : MatchAt(s, t, j)}
    IN  IF M = {} THEN 0 ELSE SetMin(M)

\* "t in s"
Contains(s, t) == Find(s, t, 1) # 0

\* str.count(t): occurrences of t in s, scanned left to right without overlap
RECURSIVE CountFrom(_, _, _)
CountFrom(s, t, i) ==
    LET j == Find(s, t, i)
    IN  IF j = 0 THEN 0 ELSE 1 + CountFrom(s, t, j + Len(t))

Count(s, t) == CountFrom(s, t, 1)

\* str.split(sep): the pieces between successive occurrences of sep, empty
\* pieces kept
RECURSIVE SplitFrom(_, _, _)
SplitFrom(s, sep, i) ==
    LET j == Find(s, sep, i)
    IN  IF j = 0
        THEN <<SubSeq(s, i, Len(s))>>
        ELSE <<SubSeq(s, i, j - 1)>> \o SplitFrom(s, sep, j + Len(sep))

Split(s, sep) == SplitFrom(s, sep, 1)

\* str.strip(): leading and trailing whitespace removed
Strip(s) ==
    IF \A i \in 1..Len(s) : IsSpace(s[i]) THEN <<>>
    ELSE LET first == CHOOSE i \in 1..Len(s) :
                        ~IsSpace(s[i]) /\ \A j \in 1..(i - 1) : IsSpace(s[j])
             last == CHOOSE i \in 1..Len(s) :
                        ~IsSpace(s[i]) /\ \A j \in (i + 1)..Len(s) : IsSpace(s[j])
         IN  SubSeq(s, first, last)

\* len(s.split()): the number of maximal runs of non-whitespace characters
WordCount(s) ==
    Cardinality({i \in 1..Len(s) :
                    ~IsSpace(s[i]) /\ (i = 1 \/ IsSpace(s[i - 1]))})

\* sep.join(parts)
RECURSIVE Join(_, _)
Join(parts, sep) ==
    IF Len(parts) = 0 THEN <<>>
    ELSE IF Len(parts) = 1 THEN parts[1]
    ELSE parts[1] \o sep \o Join(Tail(parts), sep)

UpperCase ==
    <<"A","B","C","D","E","F","G","H","I","J","K","L","M",
      "N","O","P","Q","R","S","T","U","V","W","X","Y","Z">>

LowerCase ==
    <<"a","b","c","d","e","f","g","h","i","j","k","l","m",
      "n","o","p","q","r","s","t","u","v","w","x","y","z">>

LowerOf ==
    [c \in {UpperCase[i] : i \in 1..Len(UpperCase)} |->
        LowerCase[CHOOSE i \in 1..Len(UpperCase) : UpperCase[i] = c]]

LowerChar(c) == IF c \in DOMAIN LowerOf THEN LowerOf[c] ELSE c

\* str.lower()
Lower(s) == [i \in 1..Len(s) |-> LowerChar(s[i])]

\* [x for x in seq if x.strip()]
RECURSIVE NonBlank(_)
NonBlank(seq) ==
    IF Len(seq) = 0 THEN <<>>
    ELSE IF Strip(Head(seq)) = <<>> THEN NonBlank(Tail(seq))
    ELSE <<Head(seq)>> \o NonBlank(Tail(seq))

\* sum(len(p.split()) for p in seq)
RECURSIVE SumWords(_)
SumWords(seq) ==
    IF Len(seq) = 0 THEN 0 ELSE WordCount(Head(seq)) + SumWords(Tail(seq))

Period == <<".">>

BlankLine == <<"\n", "\n">>

(***************************************************************************)
(* Exact fractions for the float scores                                    *)
(***************************************************************************)

Frac(n, d) == [n |-> n, d |-> d]

Whole(k) == Frac(k, 1)

FracLe(a, b) == a.n * b.d <= b.n * a.d

FracEq(a, b) == a.n * b.d = b.n * a.d

\* max(lo, min(hi, x)) for whole lo and hi
FracClamp(x, lo, hi) ==
    IF x.n < lo * x.d THEN Whole(lo)
    ELSE IF x.n > hi * x.d THEN Whole(hi)
    ELSE x

FracLt(a, b) == a.n * b.d < b.n * a.d

RECURSIVE Gcd(_, _)
Gcd(a, b) == IF b = 0 THEN a ELSE Gcd(b, a % b)

\* the same value in lowest terms
FracNorm(x) ==
    LET g == Gcd(IF x.n < 0 THEN -x.n ELSE x.n, x.d)
    IN  IF g = 0 THEN x ELSE Frac(x.n \div g, x.d \div g)

FracAdd(a, b) == FracNorm(Frac(a.n * b.d + b.n * a.d, a.d * b.d))

\* x * (num / den)
FracTimes(x, num, den) == FracNorm(Frac(x.n * num, x.d * den))

(***************************************************************************)
(* ContentEditorAgent._has_indian_context                                  *)
(***************************************************************************)

indian_indicators ==
    <<<<"i","n","d","i","a">>,
      <<"i","n","d","i","a","n">>,
      <<"m","u","m","b","a","i">>,
      <<"d","e","l","h","i">>,
      <<"b","a","n","g","a","l","o","r","e">>,
      <<"c","h","e","n","n","a","i">>,
      <<"r","u","p","e","e">>,
      <<"U+00E2","U+201A","U+00B9">>,
      <<"l","a","k","h">>,
      <<"c","r","o","r","e">>,
      <<"d","i","w","a","l","i">>,
      <<"h","o","l","i">>,
      <<"b","o","l","l","y","w","o","o","d">>,
      <<"c","r","i","c","k","e","t">>,
      <<"c","h","a","i">>,
      <<"n","a","m","a","s","t","e">>>>

HasIndianContext(c) ==
    LET content_lower == Lower(c)
    IN  \E i \in 1..Len(indian_indicators) :
            Contains(content_lower, indian_indicators[i])

(***************************************************************************)
(* ContentEditorAgent._calculate_quality_scores                            *)
(***************************************************************************)

engagement_indicators ==
    <<<<"?">>,
      <<"!">>,
      <<"y","o","u">>,
      <<"y","o","u","r">>,
      <<"w","e">>,
      <<"o","u","r">>>>
\* the sentence list without the "if s.strip()" filter
SentencesUnfiltered(c) == Split(c, Period)

\* sentences = [s for s in content.split(".") if s.strip()]
Sentences(c) == NonBlank(Split(c, Period))

\* paragraphs = [p for p in content.split("\n\n") if p.strip()]
Paragraphs(c) == NonBlank(Split(c, BlankLine))
\* the readability penalty with slope 2 in place of 3
ReadabilityScoreSlope2(c) ==
    LET words == WordCount(c)
        sentences == Sentences(c)
        n == Len(sentences)
    IN  IF n # 0
        THEN FracClamp(Frac(100 * n - (words - 15 * n) * 2, n), 0, 100)
        ELSE Whole(0)

\* min(100, max(0, 100 - (len(words) / len(sentences) - 15) * 3)), and 0.0
\* when there is no sentence
ReadabilityScore(c) ==
    LET words == WordCount(c)
        sentences == Sentences(c)
        n == Len(sentences)
    IN  IF n # 0
        THEN FracClamp(Frac(100 * n - (words - 15 * n) * 3, n), 0, 100)
        ELSE Whole(0)

CulturalRelevance(c) == IF HasIndianContext(c) THEN Whole(85) ELSE Whole(40)

\* min(100, max(0, 100 - (avg_para_length - 50) * 2)), and 0.0 when there is
\* no paragraph
MobileOptimization(c) ==
    LET paragraphs == Paragraphs(c)
        n == Len(paragraphs)
        total == SumWords(paragraphs)
    IN  IF n # 0
        THEN FracClamp(Frac(100 * n - (total - 50 * n) * 2, n), 0, 100)
        ELSE Whole(0)

RECURSIVE EngagementCount(_, _)
EngagementCount(content_lower, i) ==
    IF i > Len(engagement_indicators) THEN 0
    ELSE Count(content_lower, engagement_indicators[i])
            + EngagementCount(content_lower, i + 1)
\* the engagement score without its cap of 100
EngagementPotentialUncapped(c) == Whole(EngagementCount(Lower(c), 1) * 5)

\* min(100, engagement_count * 5)
EngagementPotential(c) ==
    LET engagement_count == EngagementCount(Lower(c), 1)
    IN  IF engagement_count * 5 > 100 THEN Whole(100)
        ELSE Whole(engagement_count * 5)
\* the weighted sum with the second 0.3 and the first 0.2 exchanged
OverallQualitySwapped(r, c, m, e) ==
    FracAdd(FracAdd(FracAdd(FracTimes(r, 3, 10), FracTimes(c, 2, 10)),
                    FracTimes(m, 3, 10)),
            FracTimes(e, 2, 10))

\* readability * 0.3 + cultural * 0.3 + mobile * 0.2 + engagement * 0.2
OverallQuality(r, c, m, e) ==
    FracAdd(FracAdd(FracAdd(FracTimes(r, 3, 10), FracTimes(c, 3, 10)),
                    FracTimes(m, 2, 10)),
            FracTimes(e, 2, 10))

CalculateQualityScoresOf(c) ==
    LET r == ReadabilityScore(c)
        k == CulturalRelevance(c)
        m == MobileOptimization(c)
        e == EngagementPotential(c)
    IN  [readability_score |-> r,
         cultural_relevance |-> k,
         mobile_optimization |-> m,
         engagement_potential |-> e,
         overall_quality |-> OverallQuality(r, k, m, e)]

(***************************************************************************)
(* Inputs: every concatenation of at most a bounded number of blocks       *)
(***************************************************************************)

RECURSIVE Flatten(_)
Flatten(seqs) == IF Len(seqs) = 0 THEN <<>> ELSE Head(seqs) \o Flatten(Tail(seqs))

\* every string made of at most n blocks of the table
Texts(blocks, n) ==
    UNION {{Flatten([i \in 1..k |-> blocks[f[i]]]) :
                f \in [1..k -> 1..Len(blocks)]} : k \in 0..n}

\* s followed by a full stop and a space
Sentence(s) == s \o <<".", " ">>

\* k words "x", single spaces between them, nothing after the last
XWords(k) == IF k = 0 THEN <<>> ELSE Rep(<<"x", " ">>, k - 1) \o <<"x">>

MaxScoreBlocks == 3

ScoreBlocks ==
    <<Sentence(XWords(15)),
      Sentence(XWords(40)),
      XWords(25) \o <<" ">>,
      BlankLine,
      <<"Y","o","u","?"," ","Y","o","u","r","?"," ","W","e","!"," ","O","u","r",
        "!","!"," ">>,
      <<"C","h","a","i","."," ">>>>

ScoreInputs == Texts(ScoreBlocks, MaxScoreBlocks)

NoResult == [none |-> TRUE]

NoArgs == <<>>

NoState == [none |-> TRUE]

(***************************************************************************)
(* Operations                                                              *)
(***************************************************************************)

CalculateQualityScores ==
    /\ op = "none"
    /\ op' = "scores"
    /\ result' = CalculateQualityScoresOf(content)
    /\ UNCHANGED <<content, args, passes, state>>

InitScores ==
    /\ content \in ScoreInputs
    /\ op = "none"
    /\ result = NoResult
    /\ passes = 0
    /\ state = NoState
    /\ args = NoArgs

NextScores == CalculateQualityScores

SpecScores == InitScores /\ [][NextScores]_vars

(***************************************************************************)
(* Claims about _calculate_quality_scores                                  *)
(***************************************************************************)

ScoreFields ==
    {"readability_score", "cultural_relevance", "mobile_optimization",
     "engagement_potential", "overall_quality"}

\* C1: each of the five scores returned by _calculate_quality_scores lies
\* in the closed range [0, 100].
C1_ScoresInRange ==
    op = "scores" =>
        \A f \in ScoreFields :
            /\ result[f].d > 0
            /\ FracLe(Whole(0), result[f])
            /\ FracLe(result[f], Whole(100))

\* a content whose raw engagement (5 per indicator) and raw readability
\* both exceed 100, so that the caps decide the score
C1_Witness ==
    /\ op = "scores"
    /\ EngagementCount(Lower(content), 1) * 5 > 100
    /\ WordCount(content) < 12 * Len(Sentences(content))
    /\ result.engagement_potential = Whole(100)
    /\ result.readability_score = Whole(100)

FracMin(a, b) == IF FracLe(a, b) THEN a ELSE b

FracMax(a, b) == IF FracLe(a, b) THEN b ELSE a

\* C2: overall_quality = 0.3*readability_score + 0.3*cultural_relevance
\* + 0.2*mobile_optimization + 0.2*engagement_potential, and so lies between
\* the smallest and the largest of the four sub-scores.
C2_OverallIsWeightedAverage ==
    op = "scores" =>
        LET r == result.readability_score
            k == result.cultural_relevance
            m == result.mobile_optimization
            e == result.engagement_potential
            o == result.overall_quality
            lo == FracMin(FracMin(r, k), FracMin(m, e))
            hi == FracMax(FracMax(r, k), FracMax(m, e))
        IN  /\ 10 * o.n * r.d * m.d
                 = o.d * (3 * r.n * m.d + 3 * k.n * r.d * m.d
                          + 2 * m.n * r.d + 2 * e.n * r.d * m.d)
            /\ FracLe(lo, o)
            /\ FracLe(o, hi)

\* a content whose overall score lies strictly inside the range of its four
\* sub-scores, none of which is zero
C2_Witness ==
    /\ op = "scores"
    /\ LET r == result.readability_score
           k == result.cultural_relevance
           m == result.mobile_optimization
           e == result.engagement_potential
           o == result.overall_quality
       IN  /\ FracLt(FracMin(FracMin(r, k), FracMin(m, e)), o)
           /\ FracLt(o, FracMax(FracMax(r, k), FracMax(m, e)))
           /\ r.n > 0 /\ m.n > 0 /\ e.n > 0
           /\ ~FracEq(r, m)

\* C3: with at least one non-empty sentence, readability_score equals
\* clamp(100 - 3*(avg - 15), 0, 100) for avg = words / sentences; avg = 15
\* gives exactly 100 and avg = 40 gives exactly 25.
C3_ReadabilityFormula ==
    (op = "scores" /\ Len(Sentences(content)) > 0) =>
        LET W == WordCount(content)
            S == Len(Sentences(content))
            r == result.readability_score
        IN  /\ (100 * S - 3 * (W - 15 * S) < 0) => FracEq(r, Whole(0))
            /\ (100 * S - 3 * (W - 15 * S) > 100 * S) => FracEq(r, Whole(100))
            /\ (/\ 100 * S - 3 * (W - 15 * S) >= 0
                /\ 100 * S - 3 * (W - 15 * S) <= 100 * S)
                   => r.n * S = r.d * (100 * S - 3 * (W - 15 * S))
            /\ (W = 15 * S) => FracEq(r, Whole(100))
            /\ (W = 40 * S) => FracEq(r, Whole(25))

\* a content averaging exactly 40 words a sentence was scored
C3_Witness ==
    /\ op = "scores"
    /\ Len(Sentences(content)) > 0
    /\ WordCount(content) = 40 * Len(Sentences(content))
    /\ FracEq(result.readability_score, Whole(25))

\* C4: for the empty string readability_score, mobile_optimization and
\* engagement_potential are all 0.0.
C4_EmptyContentScoresZero ==
    (op = "scores" /\ content = <<>>) =>
        /\ result.readability_score = Whole(0)
        /\ result.mobile_optimization = Whole(0)
        /\ result.engagement_potential = Whole(0)

\* the empty string was scored and a record came back
C4_Witness ==
    /\ op = "scores"
    /\ content = <<>>
    /\ DOMAIN result = ScoreFields

(***************************************************************************)
(* ContentEditorAgent._optimize_for_mobile                                 *)
(***************************************************************************)

MaxParagraphWords == 75

Space == <<" ">>

\* [s.strip() + "." for s in paragraph.split(".") if s.strip()]
RECURSIVE StripEach(_)
StripEach(seq) ==
    IF Len(seq) = 0 THEN <<>> ELSE <<Strip(Head(seq))>> \o StripEach(Tail(seq))

RECURSIVE AddPeriod(_)
AddPeriod(seq) ==
    IF Len(seq) = 0 THEN <<>> ELSE <<Head(seq) \o Period>> \o AddPeriod(Tail(seq))

ChunkSentences(paragraph) == AddPeriod(StripEach(NonBlank(Split(paragraph, Period))))

\* the packing loop testing the sentence alone against the limit, the words
\* already in the chunk forgotten
RECURSIVE PackIgnoringCount(_, _, _, _, _)
PackIgnoringCount(sentences, i, current_chunk, current_word_count, out) ==
    IF i > Len(sentences)
    THEN IF current_chunk # <<>>
         THEN Append(out, Join(current_chunk, Space))
         ELSE out
    ELSE LET sentence == sentences[i]
             sentence_words == WordCount(sentence)
         IN  IF sentence_words > MaxParagraphWords /\ current_chunk # <<>>
             THEN PackIgnoringCount(sentences, i + 1, <<sentence>>,
                       sentence_words, Append(out, Join(current_chunk, Space)))
             ELSE PackIgnoringCount(sentences, i + 1,
                       Append(current_chunk, sentence),
                       current_word_count + sentence_words, out)

\* the packing loop opening the next chunk empty, the sentence that did not
\* fit lost
RECURSIVE PackDroppingSentence(_, _, _, _, _)
PackDroppingSentence(sentences, i, current_chunk, current_word_count, out) ==
    IF i > Len(sentences)
    THEN IF current_chunk # <<>>
         THEN Append(out, Join(current_chunk, Space))
         ELSE out
    ELSE LET sentence == sentences[i]
             sentence_words == WordCount(sentence)
         IN  IF /\ current_word_count + sentence_words > MaxParagraphWords
                /\ current_chunk # <<>>
             THEN PackDroppingSentence(sentences, i + 1, <<>>, 0,
                       Append(out, Join(current_chunk, Space)))
             ELSE PackDroppingSentence(sentences, i + 1,
                       Append(current_chunk, sentence),
                       current_word_count + sentence_words, out)

\* the loop over the sentences of one long paragraph: a sentence that would
\* take a non-empty chunk past the limit closes the chunk and opens the next
RECURSIVE Pack(_, _, _, _, _)
Pack(sentences, i, current_chunk, current_word_count, out) ==
    IF i > Len(sentences)
    THEN IF current_chunk # <<>>
         THEN Append(out, Join(current_chunk, Space))
         ELSE out
    ELSE LET sentence == sentences[i]
             sentence_words == WordCount(sentence)
         IN  IF /\ current_word_count + sentence_words > MaxParagraphWords
                /\ current_chunk # <<>>
             THEN Pack(sentences, i + 1, <<sentence>>, sentence_words,
                       Append(out, Join(current_chunk, Space)))
             ELSE Pack(sentences, i + 1, Append(current_chunk, sentence),
                       current_word_count + sentence_words, out)

\* what one pass of the paragraph loop appends to optimized_paragraphs
ParagraphGroup(paragraph) ==
    IF WordCount(paragraph) > MaxParagraphWords
    THEN Pack(ChunkSentences(paragraph), 1, <<>>, 0, <<>>)
    ELSE <<paragraph>>

\* one group of output paragraphs for each input paragraph, in input order
ParagraphGroups(c) ==
    LET paragraphs == Split(c, BlankLine)
    IN  [i \in 1..Len(paragraphs) |-> ParagraphGroup(paragraphs[i])]

OptimizedParagraphs(c) == Flatten(ParagraphGroups(c))

\* one "Split long paragraph for mobile viewing" for each long paragraph
RECURSIVE SplitNotes(_)
SplitNotes(paragraphs) ==
    IF Len(paragraphs) = 0 THEN <<>>
    ELSE (IF WordCount(Head(paragraphs)) > MaxParagraphWords
          THEN <<"Split long paragraph for mobile viewing">> ELSE <<>>)
         \o SplitNotes(Tail(paragraphs))

list_indicators ==
    <<<<"b","e","n","e","f","i","t","s"," ","i","n","c","l","u","d","e">>,
      <<"f","e","a","t","u","r","e","s"," ","a","r","e">>,
      <<"w","e"," ","o","f","f","e","r">>,
      <<"s","e","r","v","i","c","e","s"," ","i","n","c","l","u","d","e">>>>

SuggestionHead ==
    <<"\n","\n","U+00F0","U+0178","U+201C","U+00B1"," ","M","o","b","i","l","e",
      " ","O","p","t","i","m","i","z","a","t","i","o","n"," ","S","u","g","g",
      "e","s","t","i","o","n",":"," ","C","o","n","s","i","d","e","r"," ","c",
      "o","n","v","e","r","t","i","n","g"," ","t","h","e"," ","l","i","s","t",
      " ","a","f","t","e","r"," ","'">>

SuggestionTail ==
    <<"'"," ","i","n","t","o"," ","b","u","l","l","e","t"," ","p","o","i","n",
      "t","s"," ","f","o","r"," ","b","e","t","t","e","r"," ","m","o","b","i",
      "l","e"," ","r","e","a","d","a","b","i","l","i","t","y",".">>

\* re.search(f"{indicator}[^.]*\\.", text, re.IGNORECASE): the indicator
\* occurs, in any letter case, with a full stop somewhere after it (a full
\* stop after the first occurrence is one after some occurrence and back)
IndicatorSentenceMatches(text, indicator) ==
    LET i == Find(Lower(text), indicator, 1)
    IN  /\ i # 0
        /\ \E j \in (i + Len(indicator))..Len(text) : text[j] = "."

\* the first listed indicator that is in the lowercased text and whose
\* pattern matches; 0 when there is none
SuggestedIndicator(text) ==
    LET text_lower == Lower(text)
        hits == {k \in 1..Len(list_indicators) :
                    /\ Contains(text_lower, list_indicators[k])
                    /\ IndicatorSentenceMatches(text, list_indicators[k])}
    IN  IF hits = {} THEN 0 ELSE SetMin(hits)

Suggestion(k) == SuggestionHead \o list_indicators[k] \o SuggestionTail

OptimizeForMobileOf(c) ==
    LET mobile_optimized == Join(OptimizedParagraphs(c), BlankLine)
        k == SuggestedIndicator(mobile_optimized)
    IN  [content |->
            IF k = 0 THEN mobile_optimized ELSE mobile_optimized \o Suggestion(k),
         optimizations |->
            SplitNotes(Split(c, BlankLine))
            \o (IF k = 0 THEN <<>>
                ELSE <<"Suggested bullet point formatting for mobile">>)]

MaxMobileBlocks == 4

MaxMobilePasses == 2

MobileBlocks ==
    <<Sentence(XWords(40)),
      XWords(40) \o Space,
      BlankLine,
      <<"W","e"," ","o","f","f","e","r"," ","t","e","a","."," ">>>>

MobileInputs == Texts(MobileBlocks, MaxMobileBlocks)

\* _optimize_for_mobile(content)
OptimizeForMobile ==
    /\ op = "none"
    /\ op' = "mobile"
    /\ result' = OptimizeForMobileOf(content)
    /\ passes' = 1
    /\ UNCHANGED <<content, args, state>>

\* _optimize_for_mobile applied to the content the previous pass returned
OptimizeForMobileAgain ==
    /\ op = "mobile"
    /\ passes < MaxMobilePasses
    /\ content' = result.content
    /\ result' = OptimizeForMobileOf(result.content)
    /\ passes' = passes + 1
    /\ UNCHANGED <<op, args, state>>

InitMobile ==
    /\ content \in MobileInputs
    /\ op = "none"
    /\ result = NoResult
    /\ passes = 0
    /\ state = NoState
    /\ args = NoArgs

NextMobile == OptimizeForMobile \/ OptimizeForMobileAgain

SpecMobile == InitMobile /\ [][NextMobile]_vars

(***************************************************************************)
(* Claims about _optimize_for_mobile                                       *)
(***************************************************************************)

\* the non-empty period-delimited sentences of a text, each stripped
StrippedSentences(text) == StripEach(NonBlank(Split(text, Period)))

\* C5 as stated: after one pass every blank-line-delimited paragraph of the
\* returned content contains at most 75 words.
C5_EveryParagraphWithinLimit ==
    (op = "mobile" /\ passes = 1) =>
        LET out == Split(result.content, BlankLine)
        IN  \A i \in 1..Len(out) : WordCount(out[i]) <= 75

\* C5 as amended: after one pass every blank-line-delimited paragraph of the
\* returned content contains at most 75 words, unless it consists of one
\* single sentence (a sentence of more than 75 words is never split).
C5_ParagraphWithinLimitOrOneSentence ==
    (op = "mobile" /\ passes = 1) =>
        LET out == Split(result.content, BlankLine)
        IN  \A i \in 1..Len(out) :
                \/ WordCount(out[i]) <= 75
                \/ /\ Len(StrippedSentences(out[i])) = 1
                   /\ Count(out[i], Period) = 1
                   /\ out[i][Len(out[i])] = "."

\* a paragraph of more than 75 words holding several sentences was repacked
\* into paragraphs of several sentences within the limit
C5_Witness ==
    /\ op = "mobile"
    /\ passes = 1
    /\ LET in == Split(content, BlankLine)
           out == Split(result.content, BlankLine)
       IN  /\ \E i \in 1..Len(in) :
                /\ WordCount(in[i]) > 75
                /\ Len(StrippedSentences(in[i])) >= 3
           /\ \E j \in 1..Len(out) :
                /\ Len(StrippedSentences(out[j])) >= 2
                /\ WordCount(out[j]) > 40
           /\ \A j \in 1..Len(out) : WordCount(out[j]) <= 75
           /\ Len(out) > Len(in)

\* C6 as stated: applying _optimize_for_mobile to the content it returned
\* gives that content back unchanged.
C6_SecondPassChangesNothing ==
    (op = "mobile" /\ passes >= 2) => result.content = content

IsPrefix(s, t) == Len(s) <= Len(t) /\ SubSeq(t, 1, Len(s)) = s

\* C7: a repacked paragraph (more than 75 words) yields paragraphs whose
\* sentences, read in order, are exactly the sentences of the input
\* paragraph in their order; a paragraph of at most 75 words is emitted
\* unchanged; the groups follow each other in input order at the head of the
\* returned content.
C7_PackingKeepsSentencesAndOrder ==
    (op = "mobile" /\ passes = 1) =>
        LET in == Split(content, BlankLine)
            groups == ParagraphGroups(content)
        IN  /\ IsPrefix(Join(Flatten(groups), BlankLine), result.content)
            /\ \A i \in 1..Len(in) :
                 IF WordCount(in[i]) <= 75
                 THEN groups[i] = <<in[i]>>
                 ELSE Flatten([j \in 1..Len(groups[i]) |->
                                  StrippedSentences(groups[i][j])])
                        = StrippedSentences(in[i])

\* a long paragraph was repacked into several paragraphs and a short
\* paragraph after it was emitted behind them
C7_Witness ==
    /\ op = "mobile"
    /\ passes = 1
    /\ LET in == Split(content, BlankLine)
           groups == ParagraphGroups(content)
       IN  \E i, j \in 1..Len(in) :
              /\ i < j
              /\ WordCount(in[i]) > 75
              /\ Len(groups[i]) >= 2
              /\ Len(StrippedSentences(in[i])) >= 2
              /\ WordCount(in[j]) <= 75
              /\ WordCount(in[j]) > 0
              /\ Split(result.content, BlankLine)[Len(groups[i]) + 1] = in[j]

(***************************************************************************)
(* ContentEditorAgent._optimize_readability                                *)
(***************************************************************************)

LongSentenceWords == 25

MinLeftWords == 10

MaxLeftWords == 20

MaxParagraphSentences == 5

split_points ==
    <<<<"a","n","d">>,
      <<"b","u","t">>,
      <<"h","o","w","e","v","e","r">>,
      <<"b","e","c","a","u","s","e">>,
      <<"s","i","n","c","e">>,
      <<"w","h","i","l","e">>>>

PeriodSpace == <<".", " ">>

\* None, for best_split
None == -1

\* sentence[:index] for a 0-based Python index
Before(sentence, index) == SubSeq(sentence, 1, index)

\* sentence[index:] for a 0-based Python index
From(sentence, index) == SubSeq(sentence, index + 1, Len(sentence))

\* sentence.lower().index(point), 0-based, for a point that occurs
IndexOf(sentence, point) == Find(Lower(sentence), point, 1) - 1

\* the test on the left-hand clause with both ends of the range let in
GoodPointsInclusive(sentence) ==
    {k \in 1..Len(split_points) :
        /\ Contains(Lower(sentence), split_points[k])
        /\ LET left == WordCount(Before(sentence,
                                        IndexOf(sentence, split_points[k])))
           IN  MinLeftWords <= left /\ left <= MaxLeftWords}

\* the points, by their place in split_points, that are in the lowercased
\* sentence and whose first occurrence has more than 10 and fewer than 20
\* words before it
GoodPoints(sentence) ==
    {k \in 1..Len(split_points) :
        /\ Contains(Lower(sentence), split_points[k])
        /\ LET left == WordCount(Before(sentence,
                                        IndexOf(sentence, split_points[k])))
           IN  MinLeftWords < left /\ left < MaxLeftWords}

\* the loop taking the leftmost of the passing first occurrences, whatever
\* its place in split_points
BestSplitLeftmost(sentence) ==
    IF GoodPoints(sentence) = {} THEN None
    ELSE SetMin({IndexOf(sentence, split_points[k]) : k \in GoodPoints(sentence)})

\* the loop over split_points: the first listed point that passes the test
\* sets best_split and ends the loop
BestSplit(sentence) ==
    IF GoodPoints(sentence) = {} THEN None
    ELSE IndexOf(sentence, split_points[SetMin(GoodPoints(sentence))])

\* what the sentence loop appends to optimized_sentences for one stripped,
\* non-empty sentence
SplitLongSentence(sentence) ==
    IF WordCount(sentence) > LongSentenceWords
    THEN LET best_split == BestSplit(sentence)
         IN  IF best_split # None /\ best_split # 0
             THEN <<Strip(Before(sentence, best_split)),
                    Strip(From(sentence, best_split))>>
             ELSE <<sentence>>
    ELSE <<sentence>>

\* the stripped non-empty pieces of content.split("."), in order
LoopSentences(c) == StripEach(NonBlank(Split(c, Period)))

OptimizedSentenceGroups(c) ==
    LET sentences == LoopSentences(c)
    IN  [i \in 1..Len(sentences) |-> SplitLongSentence(sentences[i])]

RECURSIVE SentenceNotes(_)
SentenceNotes(groups) ==
    IF Len(groups) = 0 THEN <<>>
    ELSE (IF Len(Head(groups)) = 2
          THEN <<"Split long sentence for better readability">> ELSE <<>>)
         \o SentenceNotes(Tail(groups))

\* what the paragraph loop appends to optimized_paragraphs for one paragraph
ReadableParagraphGroup(paragraph) ==
    LET sentences_in_para == StripEach(NonBlank(Split(paragraph, Period)))
        n == Len(sentences_in_para)
        mid_point == n \div 2
    IN  IF n > MaxParagraphSentences
        THEN <<Join(SubSeq(sentences_in_para, 1, mid_point), PeriodSpace)
                 \o Period,
               Join(SubSeq(sentences_in_para, mid_point + 1, n), PeriodSpace)
                 \o Period>>
        ELSE <<paragraph>>

RECURSIVE ParagraphNotes(_)
ParagraphNotes(groups) ==
    IF Len(groups) = 0 THEN <<>>
    ELSE (IF Len(Head(groups)) = 2
          THEN <<"Split long paragraph for mobile readability">> ELSE <<>>)
         \o ParagraphNotes(Tail(groups))

OptimizeReadabilityOf(c) ==
    LET sentence_groups == OptimizedSentenceGroups(c)
        joined == Join(Flatten(sentence_groups), PeriodSpace)
        paragraphs == Split(joined, BlankLine)
        paragraph_groups ==
            [i \in 1..Len(paragraphs) |-> ReadableParagraphGroup(paragraphs[i])]
        optimized_content == Join(Flatten(paragraph_groups), BlankLine)
        words == WordCount(optimized_content)
        sentences == Len(Sentences(optimized_content))
    IN  [content |-> optimized_content,
         metrics |->
            [avg_sentence_length |->
                IF sentences # 0 THEN Frac(words, sentences) ELSE Whole(0),
             total_words |-> words,
             total_sentences |-> sentences,
             estimated_grade_level |->
                IF sentences # 0
                THEN FracClamp(Frac(words - 5 * sentences, sentences), 1, 12)
                ELSE Whole(8),
             improvements_made |->
                SentenceNotes(sentence_groups) \o ParagraphNotes(paragraph_groups)]]

MaxLeadWords == 21

MaxGapWords == 1

TrailWords == 15

\* k words "x", each followed by a space
XRun(k) == Rep(<<"x", " ">>, k)

Joiners ==
    {<<>>,
     <<"a","n","d"," ">>,
     <<"B","e","c","a","u","s","e"," ">>,
     <<"b","r","a","n","d"," ">>}

Endings ==
    {<<>>,
     <<"."," ","a","."," ","b","."," ","c","."," ","d","."," ","e","."," ">>,
     <<"\n","\n","A","."," ","b","."," ">>}

\* a run of words, a joiner, a short run, a joiner, a run of 15 words, an ending
ReadabilityInputs ==
    {XRun(a) \o j1 \o XRun(b) \o j2 \o XRun(TrailWords) \o z :
        a \in 0..MaxLeadWords, j1 \in Joiners, b \in 0..MaxGapWords,
        j2 \in Joiners, z \in Endings}

\* _optimize_readability(content)
OptimizeReadability ==
    /\ op = "none"
    /\ op' = "readability"
    /\ result' = OptimizeReadabilityOf(content)
    /\ UNCHANGED <<content, args, passes, state>>

InitReadability ==
    /\ content \in ReadabilityInputs
    /\ op = "none"
    /\ result = NoResult
    /\ passes = 0
    /\ state = NoState
    /\ args = NoArgs

NextReadability == OptimizeReadability

SpecReadability == InitReadability /\ [][NextReadability]_vars

(***************************************************************************)
(* Claims about _optimize_readability                                      *)
(***************************************************************************)

\* the number of words to the left of position j (1-based) of a sentence
LeftWords(sentence, j) == WordCount(SubSeq(sentence, 1, j - 1))

\* every position where the conjunction occurs in the lowercased sentence
Occurrences(sentence, point) ==
    LET low == Lower(sentence)
    IN  {j \in 1..Len(sentence) : MatchAt(low, point, j)}

\* the first such position, 0 when there is none
FirstOccurrence(sentence, point) ==
    LET found == Occurrences(sentence, point)
    IN  IF found = {} THEN 0 ELSE SetMin(found)

\* the sentence cut in two just before position j
CutAt(sentence, j) ==
    <<Strip(SubSeq(sentence, 1, j - 1)), Strip(SubSeq(sentence, j, Len(sentence)))>>

\* positions of any occurrence of any conjunction with more than 10 and
\* fewer than 20 words to its left
QualifyingOccurrences(sentence) ==
    LET low == Lower(sentence)
    IN  {j \in 1..Len(sentence) :
            /\ \E k \in 1..Len(split_points) : MatchAt(low, split_points[k], j)
            /\ LET n == LeftWords(sentence, j) IN 10 < n /\ n < 20}

\* conjunctions, by place in the list and, but, however, because, since,
\* while, whose first occurrence has more than 10 and fewer than 20 words to
\* its left
QualifyingConjunctions(sentence) ==
    {k \in 1..Len(split_points) :
        LET j == FirstOccurrence(sentence, split_points[k])
        IN  /\ j # 0
            /\ LET n == LeftWords(sentence, j) IN 10 < n /\ n < 20}

Because == split_points[4]

\* the returned content holds, sentence by sentence, what the sentence loop
\* emitted (stated for content without a blank line, where no sentence runs
\* across a paragraph break)
EmittedSentencesReturned ==
    ~Contains(content, BlankLine) =>
        StrippedSentences(result.content)
            = Flatten(OptimizedSentenceGroups(content))

C9_SplitAtLeftmostQualifyingOccurrence ==
    op = "readability" =>
        LET sentences == LoopSentences(content)
            emitted == OptimizedSentenceGroups(content)
        IN  \A i \in 1..Len(sentences) :
              LET s == sentences[i]
              IN  (WordCount(s) > 25 /\ QualifyingOccurrences(s) # {}) =>
                      emitted[i] = CutAt(s, SetMin(QualifyingOccurrences(s)))

\* C9 as amended: a sentence of more than 25 words is split exactly when,
\* for some listed conjunction, the first occurrence of that conjunction in
\* the lowercased sentence (as a substring) has more than 10 and fewer than
\* 20 words to its left, and the split is made at the first occurrence of
\* the earliest-listed such conjunction.
C9_SplitAtFirstListedQualifyingConjunction ==
    op = "readability" =>
        LET sentences == LoopSentences(content)
            emitted == OptimizedSentenceGroups(content)
        IN  /\ EmittedSentencesReturned
            /\ \A i \in 1..Len(sentences) :
                 LET s == sentences[i]
                     Q == QualifyingConjunctions(s)
                 IN  WordCount(s) > 25 =>
                        IF Q = {}
                        THEN emitted[i] = <<s>>
                        ELSE emitted[i]
                               = CutAt(s, FirstOccurrence(s, split_points[SetMin(Q)]))

\* a sentence of more than 25 words in which "and" and "because" both
\* qualify, "because" to the left of "and", was split at "and"
C9_Witness ==
    /\ op = "readability"
    /\ LoopSentences(content) # <<>>
    /\ LET s == LoopSentences(content)[1]
       IN  /\ WordCount(s) > 25
           /\ QualifyingConjunctions(s) = {1, 4}
           /\ FirstOccurrence(s, Because) < FirstOccurrence(s, split_points[1])
           /\ OptimizedSentenceGroups(content)[1]
                 = CutAt(s, FirstOccurrence(s, split_points[1]))
           /\ IsPrefix(CutAt(s, FirstOccurrence(s, split_points[1]))[1] \o PeriodSpace,
                       result.content)

(***************************************************************************)
(* ContentEditorAgent._review_cultural_sensitivity                         *)
(***************************************************************************)

FullScore == 100

TermPenalty == 10

BalanceWords == 200

sensitive_terms ==
    <<<<"b","a","c","k","w","a","r","d">>,
      <<"p","r","i","m","i","t","i","v","e">>,
      <<"u","n","e","d","u","c","a","t","e","d">>,
      <<"i","l","l","i","t","e","r","a","t","e">>,
      <<"p","o","o","r"," ","p","e","o","p","l","e">>,
      <<"r","i","c","h"," ","p","e","o","p","l","e">>,
      <<"t","y","p","i","c","a","l"," ","i","n","d","i","a","n">>,
      <<"a","l","l"," ","i","n","d","i","a","n","s">>,
      <<"v","i","l","l","a","g","e"," ","p","e","o","p","l","e">>>>

indian_cities ==
    <<<<"m","u","m","b","a","i">>,
      <<"d","e","l","h","i">>,
      <<"b","a","n","g","a","l","o","r","e">>,
      <<"c","h","e","n","n","a","i">>,
      <<"k","o","l","k","a","t","a">>,
      <<"h","y","d","e","r","a","b","a","d">>,
      <<"p","u","n","e">>>>

exclusive_terms ==
    <<<<"g","u","y","s">>,
      <<"m","a","n","p","o","w","e","r">>,
      <<"c","h","a","i","r","m","a","n">>>>

inclusive_alternatives ==
    <<<<"e","v","e","r","y","o","n","e">>,
      <<"w","o","r","k","f","o","r","c","e">>,
      <<"c","h","a","i","r","p","e","r","s","o","n">>>>

\* f"Potentially insensitive term: '{term}'"
InsensitiveIssue(term) == <<"Potentially insensitive term: '", term, "'">>

\* f"Replace '{term}' with more respectful language"
RespectfulSuggestion(term) == <<"Replace '", term, "' with more respectful language">>

\* f"Replace '{term}' with '{inclusive_alternatives[i]}'"
InclusiveSuggestion(term, alternative) ==
    <<"Replace '", term, "' with '", alternative, "'">>

BalanceSuggestion ==
    <<"Consider adding examples from other Indian regions for better balance">>

\* a variant of the loop that deducts 10 points for every occurrence of a term
RECURSIVE SensitiveTermLoopPerOccurrence(_, _, _)
SensitiveTermLoopPerOccurrence(content_lower, k, assessment) ==
    IF k > Len(sensitive_terms) THEN assessment
    ELSE IF Contains(content_lower, sensitive_terms[k])
    THEN SensitiveTermLoopPerOccurrence(content_lower, k + 1,
            [assessment EXCEPT
                !.sensitivity_score =
                    @ - TermPenalty * Count(content_lower, sensitive_terms[k]),
                !.issues_found = Append(@, InsensitiveIssue(sensitive_terms[k])),
                !.suggestions = Append(@, RespectfulSuggestion(sensitive_terms[k]))])
    ELSE SensitiveTermLoopPerOccurrence(content_lower, k + 1, assessment)

\* the loop over sensitive_terms from term k on: a term found in the
\* lowercased content costs 10 points and adds one issue and one suggestion
RECURSIVE SensitiveTermLoop(_, _, _)
SensitiveTermLoop(content_lower, k, assessment) ==
    IF k > Len(sensitive_terms) THEN assessment
    ELSE IF Contains(content_lower, sensitive_terms[k])
    THEN SensitiveTermLoop(content_lower, k + 1,
            [assessment EXCEPT
                !.sensitivity_score = @ - TermPenalty,
                !.issues_found = Append(@, InsensitiveIssue(sensitive_terms[k])),
                !.suggestions = Append(@, RespectfulSuggestion(sensitive_terms[k]))])
    ELSE SensitiveTermLoop(content_lower, k + 1, assessment)

\* regions_mentioned: the listed cities found in the lowercased content
RECURSIVE RegionsMentioned(_, _)
RegionsMentioned(content_lower, k) ==
    IF k > Len(indian_cities) THEN <<>>
    ELSE (IF Contains(content_lower, indian_cities[k])
          THEN <<indian_cities[k]>> ELSE <<>>)
         \o RegionsMentioned(content_lower, k + 1)

\* a variant that calls the content balanced as soon as one city is mentioned
RegionalBalanceStepAnyCity(c, assessment) ==
    LET regions_mentioned == RegionsMentioned(Lower(c), 1)
    IN  IF Len(regions_mentioned) >= 1
        THEN [assessment EXCEPT !.regional_balance = TRUE]
        ELSE assessment

RegionalBalanceStep(c, assessment) ==
    LET regions_mentioned == RegionsMentioned(Lower(c), 1)
    IN  IF Len(regions_mentioned) >= 2
        THEN [assessment EXCEPT !.regional_balance = TRUE]
        ELSE IF Len(regions_mentioned) = 1 /\ WordCount(c) > BalanceWords
        THEN [assessment EXCEPT !.suggestions = Append(@, BalanceSuggestion)]
        ELSE assessment

RECURSIVE ExclusiveTermLoop(_, _, _)
ExclusiveTermLoop(content_lower, i, assessment) ==
    IF i > Len(exclusive_terms) THEN assessment
    ELSE IF Contains(content_lower, exclusive_terms[i])
    THEN ExclusiveTermLoop(content_lower, i + 1,
            [assessment EXCEPT
                !.inclusive_language = FALSE,
                !.suggestions =
                    Append(@, InclusiveSuggestion(exclusive_terms[i],
                                                  inclusive_alternatives[i]))])
    ELSE ExclusiveTermLoop(content_lower, i + 1, assessment)

NewAssessment ==
    [sensitivity_score |-> FullScore,
     issues_found |-> <<>>,
     suggestions |-> <<>>,
     regional_balance |-> FALSE,
     inclusive_language |-> TRUE]

ReviewCulturalSensitivityOf(c) ==
    LET content_lower == Lower(c)
        after_terms == SensitiveTermLoop(content_lower, 1, NewAssessment)
        after_regions == RegionalBalanceStep(c, after_terms)
    IN  [content |-> c,
         assessment |-> ExclusiveTermLoop(content_lower, 1, after_regions)]

MaxRepeats == 2

UpperOf ==
    [c \in {LowerCase[i] : i \in 1..Len(LowerCase)} |->
        UpperCase[CHOOSE i \in 1..Len(LowerCase) : LowerCase[i] = c]]

\* the term with its first letter in upper case
Capitalized(term) == <<UpperOf[term[1]]>> \o Tail(term)

\* the term r times, capitalized the first time, a comma and a space after each
RECURSIVE Repeated(_, _)
Repeated(term, r) ==
    IF r = 0 THEN <<>>
    ELSE Repeated(term, r - 1)
         \o (IF r = 1 THEN Capitalized(term) ELSE term) \o <<",", " ">>

\* the terms of the table picked by T, in table order, each r times
RECURSIVE Phrase(_, _, _, _)
Phrase(terms, T, k, r) ==
    IF k > Len(terms) THEN <<>>
    ELSE (IF k \in T THEN Repeated(terms[k], r) ELSE <<>>)
         \o Phrase(terms, T, k + 1, r)

SensitivityEndings ==
    {<<>>,
     <<"O","u","r"," ","g","u","y","s"," ","i","n"," ","M","u","m","b","a","i",
       ".">>,
     <<"T","h","e"," ","c","h","a","i","r","m","a","n"," ","m","e","t"," ","m",
       "a","n","p","o","w","e","r"," ","t","e","a","m","s"," ","i","n"," ","P",
       "u","n","e"," ","a","n","d"," ","D","e","l","h","i",".">>,
     <<"B","a","c","k","w","a","r","d","s"," ","v","i","l","l","a","g","e","s",
       ".">>}

MaxCities == 2

MaxExtraWords == 1

\* texts of about 200 words that name up to MaxCities of the listed cities
LongTexts ==
    {Phrase(indian_cities, T, 1, 1) \o XRun(n) :
        T \in {S \in SUBSET (1..Len(indian_cities)) : Cardinality(S) <= MaxCities},
        n \in (BalanceWords - 2)..(BalanceWords + MaxExtraWords)}

SensitivityInputs ==
    {Phrase(sensitive_terms, T, 1, r) \o z :
        T \in SUBSET (1..Len(sensitive_terms)), r \in 1..MaxRepeats,
        z \in SensitivityEndings}
    \cup LongTexts

\* _review_cultural_sensitivity(content)
ReviewCulturalSensitivity ==
    /\ op = "none"
    /\ op' = "sensitivity"
    /\ result' = ReviewCulturalSensitivityOf(content)
    /\ UNCHANGED <<content, args, passes, state>>

InitSensitivity ==
    /\ content \in SensitivityInputs
    /\ op = "none"
    /\ result = NoResult
    /\ passes = 0
    /\ state = NoState
    /\ args = NoArgs

NextSensitivity == ReviewCulturalSensitivity

SpecSensitivity == InitSensitivity /\ [][NextSensitivity]_vars

(***************************************************************************)
(* Claim about _review_cultural_sensitivity                                *)
(***************************************************************************)

\* the listed sensitive terms that occur in the lowercased text
SensitiveHits(c) ==
    {k \in 1..Len(sensitive_terms) : Contains(Lower(c), sensitive_terms[k])}

\* how many entries of the list are equal to x
Entries(list, x) == Cardinality({i \in 1..Len(list) : list[i] = x})

\* C10: _review_cultural_sensitivity deducts 10 points from 100 for each
\* listed sensitive term that occurs in the lowercased content and never
\* returns a sensitivity_score below 0; issues_found and the term-replacement
\* suggestions hold exactly one entry per deducted hit and none for any other
\* term, so sensitivity_score = 100 - 10 * len(issues_found).
C10_TenPointsPerSensitiveTerm ==
    op = "sensitivity" =>
        LET a == result.assessment
            hits == SensitiveHits(content)
            replacements ==
                {i \in 1..Len(a.suggestions) :
                    \E k \in 1..Len(sensitive_terms) :
                        a.suggestions[i] = RespectfulSuggestion(sensitive_terms[k])}
        IN  /\ a.sensitivity_score = 100 - 10 * Cardinality(hits)
            /\ a.sensitivity_score >= 0
            /\ Len(a.issues_found) = Cardinality(hits)
            /\ Cardinality(replacements) = Cardinality(hits)
            /\ \A k \in 1..Len(sensitive_terms) :
                LET n == IF k \in hits THEN 1 ELSE 0
                IN  /\ Entries(a.issues_found,
                               InsensitiveIssue(sensitive_terms[k])) = n
                    /\ Entries(a.suggestions,
                               RespectfulSuggestion(sensitive_terms[k])) = n
            /\ a.sensitivity_score = 100 - 10 * Len(a.issues_found)

\* every listed term occurs, some of them twice and in upper case in the
\* content, next to an exclusive-language suggestion
C10_Witness ==
    /\ op = "sensitivity"
    /\ SensitiveHits(content) = 1..Len(sensitive_terms)
    /\ Count(Lower(content), sensitive_terms[1]) >= 2
    /\ Contains(content, Capitalized(sensitive_terms[1]))
    /\ result.assessment.sensitivity_score = 10
    /\ Len(result.assessment.issues_found) = 9
    /\ Len(result.assessment.suggestions) > 9


\* the listed cities that occur in the lowercased text
CitiesIn(c) ==
    LET low == Lower(c)
    IN  {k \in 1..Len(indian_cities) : Contains(low, indian_cities[k])}

\* C11: regional_balance is True when at least two distinct cities of the
\* checked list occur anywhere in the text, and False when exactly one listed
\* city occurs and the text has more than 200 words.
C11_RegionalBalance ==
    op = "sensitivity" =>
        LET cities == CitiesIn(content)
            balance == result.assessment.regional_balance
        IN  /\ Cardinality(cities) >= 2 => balance = TRUE
            /\ (Cardinality(cities) = 1 /\ WordCount(content) > 200) =>
                   balance = FALSE

\* a text of 201 words naming one listed city was reviewed: no regional
\* balance, and the advice to add other regions was given
C11_Witness ==
    /\ op = "sensitivity"
    /\ Cardinality(CitiesIn(content)) = 1
    /\ WordCount(content) = 201
    /\ result.assessment.regional_balance = FALSE
    /\ result.assessment.suggestions = <<BalanceSuggestion>>

(***************************************************************************)
(* Regular-expression searches and substitutions of the editor             *)
(***************************************************************************)

Digits == {"0", "1", "2", "3", "4", "5", "6", "7", "8", "9"}

IsDigit(c) == c \in Digits

\* the characters of the source text above U+007F that \w matches
WordLikeNonAscii == {"U+00B9", "U+00E2", "U+00F0", "U+0153", "U+0161", "U+0178", "U+017D"}

\* \w for one character
IsWordChar(c) ==
    \/ c \in DOMAIN LowerOf
    \/ c \in DOMAIN UpperOf
    \/ IsDigit(c)
    \/ c = "_"
    \/ c \in WordLikeNonAscii

\* \b between positions i - 1 and i of s
WordBoundary(s, i) ==
    (i > 1 /\ i - 1 <= Len(s) /\ IsWordChar(s[i - 1]))
        # (i >= 1 /\ i <= Len(s) /\ IsWordChar(s[i]))

\* \bw\b matches s at position i
WordAt(s, w, i) ==
    /\ MatchAt(s, w, i)
    /\ WordBoundary(s, i)
    /\ WordBoundary(s, i + Len(w))

\* re.search(r"\bw\b", s)
SearchWord(s, w) == \E i \in 1..Len(s) : WordAt(s, w, i)

\* re.sub(r"\bw\b", replacement, s, flags=re.IGNORECASE) from position i on
RECURSIVE SubWordFrom(_, _, _, _, _)
SubWordFrom(s, low, w, replacement, i) ==
    LET M == {j \in i..(Len(s) - Len(w) + 1) : WordAt(low, w, j)}
    IN  IF M = {} THEN SubSeq(s, i, Len(s))
        ELSE LET j == SetMin(M)
             IN  SubSeq(s, i, j - 1) \o replacement
                 \o SubWordFrom(s, low, w, replacement, j + Len(w))

SubWord(s, w, replacement) == SubWordFrom(s, Lower(s), w, replacement, 1)

\* str.replace(old, new)
Replace(s, old, new) == Join(Split(s, old), new)

\* the least position >= i of s that holds no character of the set, Len(s) + 1
\* when every position from i on does
RunEnd(s, i, set) ==
    LET M == {j \in i..Len(s) : s[j] \notin set}
    IN  IF M = {} THEN Len(s) + 1 ELSE SetMin(M)

Rupee == <<"U+00E2","U+201A","U+00B9">>

Whitespace == {" ", "\n", "\t", "\r"}

\* where a match of number_pattern that starts at i ends (one past its last
\* character), 0 when the pattern does not match at i
NumberMatchEnd(s, i) ==
    LET d == RunEnd(s, i + Len(Rupee), Whitespace)
        c == RunEnd(s, d, Digits)
    IN  IF /\ MatchAt(s, Rupee, i)
           /\ c > d
           /\ c + 7 <= Len(s)
           /\ s[c] = ","
           /\ \A k \in 1..3 : IsDigit(s[c + k])
           /\ s[c + 4] = ","
           /\ \A k \in 5..7 : IsDigit(s[c + k])
           /\ WordBoundary(s, c + 8)
        THEN c + 8
        ELSE 0

\* re.sub(number_pattern, indian_format, s) from position i on
RECURSIVE SubNumberFrom(_, _)
SubNumberFrom(s, i) ==
    LET M == {j \in i..Len(s) : NumberMatchEnd(s, j) # 0}
    IN  IF M = {} THEN SubSeq(s, i, Len(s))
        ELSE LET j == SetMin(M)
                 end == NumberMatchEnd(s, j)
                 d == RunEnd(s, j + Len(Rupee), Whitespace)
             IN  SubSeq(s, i, j - 1) \o Rupee \o <<" ">> \o SubSeq(s, d, end - 1)
                 \o SubNumberFrom(s, end)

\* re.sub(r"(\$\d+)", rupee + r" \1 (equivalent)", s) from position i on
RECURSIVE SubCurrencyFrom(_, _)
SubCurrencyFrom(s, i) ==
    LET M == {j \in i..(Len(s) - 1) : s[j] = "$" /\ IsDigit(s[j + 1])}
    IN  IF M = {} THEN SubSeq(s, i, Len(s))
        ELSE LET j == SetMin(M)
                 end == RunEnd(s, j + 1, Digits)
             IN  SubSeq(s, i, j - 1) \o Rupee \o <<" ">> \o SubSeq(s, j, end - 1)
                 \o <<" ","(","e","q","u","i","v","a","l","e","n","t",")">>
                 \o SubCurrencyFrom(s, end)

\* position i starts a line of s (re.MULTILINE "^")
LineStart(s, i) == i = 1 \/ s[i - 1] = "\n"

\* re.search(r"^#+\s", s, re.MULTILINE)
HasHeader(s) ==
    \E i \in 1..Len(s) :
        /\ LineStart(s, i)
        /\ s[i] = "#"
        /\ LET e == RunEnd(s, i, {"#"}) IN e <= Len(s) /\ IsSpace(s[e])

BulletChars == {"U+00E2", "U+20AC", "U+00A2", "-", "*"}

\* re.search(r"^\s*[...]", s, re.MULTILINE) for the bullet characters
HasBullet(s) ==
    \E i \in 1..Len(s) :
        /\ LineStart(s, i)
        /\ LET e == RunEnd(s, i, Whitespace) IN e <= Len(s) /\ s[e] \in BulletChars

(***************************************************************************)
(* ContentEditorAgent._edit_grammar_and_language                           *)
(***************************************************************************)

grammar_fixes ==
    <<<<<<"v","e","r","y"," ","m","u","c","h">>, <<"v","e","r","y">>>>,
      <<<<"g","o","o","d"," ","e","n","o","u","g","h">>, <<"s","u","f","f","i","c","i","e","n","t">>>>,
      <<<<"t","o","o"," ","m","u","c","h">>, <<"e","x","c","e","s","s","i","v","e">>>>,
      <<<<"o","n","l","y"," ","a","n","d"," ","o","n","l","y">>, <<"o","n","l","y">>>>,
      <<<<"d","o"," ","o","n","e"," ","t","h","i","n","g">>, <<"p","l","e","a","s","e">>>>,
      <<<<"k","i","n","l","d","y">>, <<"k","i","n","d","l","y">>>>,
      <<<<"t","e","h">>, <<"t","h","e">>>>,
      <<<<"r","e","c","i","e","v","e">>, <<"r","e","c","e","i","v","e">>>>,
      <<<<"a","c","c","o","m","m","o","d","a","t","e">>, <<"a","c","c","o","m","m","o","d","a","t","e">>>>>>

indian_terms ==
    <<<<<<"i","n","d","i","a">>, <<"I","n","d","i","a">>>>,
      <<<<"i","n","d","i","a","n">>, <<"I","n","d","i","a","n">>>>,
      <<<<"m","u","m","b","a","i">>, <<"M","u","m","b","a","i">>>>,
      <<<<"d","e","l","h","i">>, <<"D","e","l","h","i">>>>,
      <<<<"b","a","n","g","a","l","o","r","e">>, <<"B","a","n","g","a","l","o","r","e">>>>,
      <<<<"c","h","e","n","n","a","i">>, <<"C","h","e","n","n","a","i">>>>,
      <<<<"d","i","w","a","l","i">>, <<"D","i","w","a","l","i">>>>,
      <<<<"h","o","l","i">>, <<"H","o","l","i">>>>>>

\* f"Fixed common error: '{pattern}' -> '{replacement}'"
GrammarChange(fix) == <<"Fixed common error", fix[1], fix[2]>>

\* f"Capitalized Indian term: {replacement}"
CapitalChange(term) == <<"Capitalized Indian term", term[2]>>

\* the loop over grammar_fixes from entry k on; edited is the record of the
\* content so far and the changes made
\* the one element of a one-element set
Only(S) == CHOOSE x \in S : TRUE

\* the body of the loop for entry k
GrammarStep(edited, k) ==
    IF SearchWord(Lower(edited.content), grammar_fixes[k][1])
    THEN [content |-> SubWord(edited.content, grammar_fixes[k][1],
                              grammar_fixes[k][2]),
          changes |-> Append(edited.changes, GrammarChange(grammar_fixes[k]))]
    ELSE edited

RECURSIVE GrammarLoop(_, _)
GrammarLoop(edited, k) ==
    IF k > Len(grammar_fixes) THEN edited
    ELSE Only({GrammarLoop(GrammarStep(e, k), k + 1) : e \in {edited}})

NumberFormatStep(edited) ==
    IF \E i \in 1..Len(edited.content) : NumberMatchEnd(edited.content, i) # 0
    THEN [content |-> SubNumberFrom(edited.content, 1),
          changes |-> Append(edited.changes,
                             <<"Converted to Indian number formatting">>)]
    ELSE edited

\* the loop over indian_terms: the search is case-sensitive, the substitution
\* is not
CapitalStep(edited, k) ==
    IF SearchWord(edited.content, indian_terms[k][1])
    THEN [content |-> SubWord(edited.content, indian_terms[k][1],
                              indian_terms[k][2]),
          changes |-> Append(edited.changes, CapitalChange(indian_terms[k]))]
    ELSE edited

RECURSIVE CapitalLoop(_, _)
CapitalLoop(edited, k) ==
    IF k > Len(indian_terms) THEN edited
    ELSE Only({CapitalLoop(CapitalStep(e, k), k + 1) : e \in {edited}})

EditGrammarAndLanguageOf(c) ==
    Only({CapitalLoop(NumberFormatStep(fixed), 1) :
            fixed \in {GrammarLoop([content |-> c, changes |-> <<>>], 1)}})

(***************************************************************************)
(* ContentEditorAgent._enhance_indian_market_relevance                     *)
(***************************************************************************)

EditorsNote ==
    <<"\n","\n","U+00F0","U+0178","U+2019","U+00A1"," ","E","d","i","t","o","r",
      "'","s"," ","N","o","t","e",":"," ","C","o","n","s","i","d","e","r"," ",
      "a","d","d","i","n","g"," ","s","p","e","c","i","f","i","c"," ","I","n",
      "d","i","a","n"," ","e","x","a","m","p","l","e","s",","," ","s","u","c",
      "h"," ","a","s"," ","s","u","c","c","e","s","s","f","u","l"," ","l","o",
      "c","a","l"," ","b","u","s","i","n","e","s","s","e","s",","," ","r","e",
      "l","e","v","a","n","t"," ","s","t","a","t","i","s","t","i","c","s",",",
      " ","o","r"," ","c","u","l","t","u","r","a","l"," ","r","e","f","e","r",
      "e","n","c","e","s"," ","t","o"," ","m","a","k","e"," ","t","h","i","s",
      " ","c","o","n","t","e","n","t"," ","m","o","r","e"," ","r","e","l","a",
      "t","a","b","l","e"," ","t","o"," ","I","n","d","i","a","n"," ","a","u",
      "d","i","e","n","c","e","s",".">>

time_patterns ==
    <<<<"d","e","a","d","l","i","n","e">>,
      <<"l","i","m","i","t","e","d"," ","t","i","m","e">>,
      <<"e","x","p","i","r","e","s"," ","s","o","o","n">>,
      <<"l","a","s","t"," ","c","h","a","n","c","e">>>>

IST == <<" ","(","I","S","T",")">>

\* the editor's note is appended when the content has no Indian context
IndianContextStep(c) ==
    IF ~HasIndianContext(c)
    THEN [content |-> c \o EditorsNote,
          enhancements |-> <<"Added suggestion for Indian context integration">>]
    ELSE [content |-> c, enhancements |-> <<>>]

CurrencyStep(enhanced) ==
    IF \E j \in 1..(Len(enhanced.content) - 1) :
            enhanced.content[j] = "$" /\ IsDigit(enhanced.content[j + 1])
    THEN [content |-> SubCurrencyFrom(enhanced.content, 1),
          enhancements |->
            Append(enhanced.enhancements,
                   "Added Indian currency context to international examples")]
    ELSE enhanced

\* the first listed time pattern found in the lowercased content gets
\* " (IST)" after each of its (case-sensitive) occurrences
TimeStep(enhanced) ==
    LET low == Lower(enhanced.content)
        found == {k \in 1..Len(time_patterns) : Contains(low, time_patterns[k])}
    IN  IF found = {} THEN enhanced
        ELSE LET pattern == time_patterns[SetMin(found)]
             IN  [content |-> Replace(enhanced.content, pattern, pattern \o IST),
                  enhancements |->
                    Append(enhanced.enhancements, "Added Indian time zone context")]

EnhanceIndianMarketRelevanceOf(c) ==
    Only({TimeStep(enhanced) : enhanced \in {CurrencyStep(IndianContextStep(c))}})

(***************************************************************************)
(* ContentEditorAgent._final_polish                                        *)
(***************************************************************************)

\* the characters of the class that re.match tests the first character against
OpeningChars ==
    {"U+00A1", "U+00A5", "U+00A8", "U+00AF", "U+00E2", "U+00F0", "U+0153", "U+0161", "U+0178", "U+017D", "U+2019", "U+201D", "U+2030", "U+20AC"}

SocialSuggestion ==
    <<"U+00F0","U+0178","U+2019","U+00A1"," ","C","o","n","s","i","d","e","r",
      " ","s","t","a","r","t","i","n","g"," ","w","i","t","h"," ","a","n"," ",
      "e","n","g","a","g","i","n","g"," ","e","m","o","j","i"," ","o","r"," ",
      "h","o","o","k"," ","f","o","r"," ","s","o","c","i","a","l"," ","m","e",
      "d","i","a"," ","i","m","p","a","c","t",".">>

SubjectSuggestion ==
    <<"\n","\n","U+00F0","U+0178","U+201C","U+00A7"," ","S","u","g","g","e","s",
      "t","e","d"," ","S","u","b","j","e","c","t"," ","L","i","n","e",":"," ",
      "I","n","c","l","u","d","e"," ","n","u","m","b","e","r","s",","," ","u",
      "r","g","e","n","c","y",","," ","o","r"," ","l","o","c","a","l"," ","r",
      "e","f","e","r","e","n","c","e"," ","f","o","r"," ","b","e","t","t","e",
      "r"," ","o","p","e","n"," ","r","a","t","e","s"," ","i","n"," ","I","n",
      "d","i","a","n"," ","m","a","r","k","e","t",".">>

HeaderSuggestion ==
    <<"\n","\n","U+00F0","U+0178","U+201C"," ","S","E","O"," ","T","i","p",":",
      " ","A","d","d"," ","r","e","l","e","v","a","n","t"," ","h","e","a","d",
      "e","r","s"," ","(","H","2",","," ","H","3",")"," ","w","i","t","h"," ",
      "I","n","d","i","a","n"," ","k","e","y","w","o","r","d","s"," ","f","o",
      "r"," ","b","e","t","t","e","r"," ","s","e","a","r","c","h"," ","v","i",
      "s","i","b","i","l","i","t","y",".">>

Subject == <<"s","u","b","j","e","c","t">>

FinalPolishOf(c, content_type) ==
    IF content_type = "social_media"
    THEN IF ~(Len(c) > 0 /\ c[1] \in OpeningChars)
         THEN [content |-> SocialSuggestion \o BlankLine \o c,
               polish_applied |-> <<"Added social media engagement suggestion">>]
         ELSE [content |-> c, polish_applied |-> <<>>]
    ELSE IF content_type = "email"
    THEN IF ~Contains(Lower(c), Subject)
         THEN [content |-> c \o SubjectSuggestion,
               polish_applied |-> <<"Added email subject line guidance">>]
         ELSE [content |-> c, polish_applied |-> <<>>]
    ELSE IF content_type = "blog"
    THEN IF ~HasHeader(c)
         THEN [content |-> c \o HeaderSuggestion,
               polish_applied |-> <<"Added SEO header suggestion">>]
         ELSE [content |-> c, polish_applied |-> <<>>]
    ELSE [content |-> c, polish_applied |-> <<>>]

(***************************************************************************)
(* ContentEditorAgent._generate_recommendations                            *)
(***************************************************************************)

ReadabilityAdvice ==
    "Consider shortening sentences and using simpler vocabulary for better readability"

RelevanceAdvice ==
    "Add more Indian examples, statistics, or cultural references to increase local relevance"

MobileAdvice ==
    "Break long paragraphs into shorter chunks for better mobile reading experience"

EngagementAdvice ==
    "Include more questions, direct address to readers, or interactive elements"

BulletAdvice ==
    "Consider adding bullet points or numbered lists for easier scanning"

ContactAdvice ==
    "Ensure contact methods include WhatsApp and local phone numbers for Indian market"

PriceAdvice ==
    "Include Indian currency formatting and consider mentioning payment options like UPI"

ReadabilityTarget == 80

RelevanceTarget == 70

MobileTarget == 80

EngagementTarget == 60

ScanWords == 500

\* <<x>> when the condition holds, nothing otherwise
When(condition, x) == IF condition THEN <<x>> ELSE <<>>

GenerateRecommendationsOf(scores, edited_content) ==
    LET low == Lower(edited_content)
    IN  When(FracLt(scores.readability_score, Whole(ReadabilityTarget)),
             ReadabilityAdvice)
        \o When(FracLt(scores.cultural_relevance, Whole(RelevanceTarget)),
                RelevanceAdvice)
        \o When(FracLt(scores.mobile_optimization, Whole(MobileTarget)),
                MobileAdvice)
        \o When(FracLt(scores.engagement_potential, Whole(EngagementTarget)),
                EngagementAdvice)
        \o When(WordCount(edited_content) > ScanWords /\ ~HasBullet(edited_content),
                BulletAdvice)
        \o When(Contains(low, <<"c","a","l","l">>)
                    \/ Contains(low, <<"c","o","n","t","a","c","t">>),
                ContactAdvice)
        \o When(Contains(low, <<"p","r","i","c","e">>)
                    \/ Contains(low, <<"c","o","s","t">>),
                PriceAdvice)

(***************************************************************************)
(* ContentEditorAgent.edit_content                                         *)
(***************************************************************************)

\* _analyze_content_structure and _perform_final_quality_checks are computed
\* and dropped by edit_content; they contribute nothing to its result.
\* Each stage works on the content the stage before it returned.
EditContentOf(c, content_type) ==
    Only({
    Only({
    Only({
    Only({
    Only({
    Only({
    Only({
        [original_content |-> c,
         edited_content |-> final_content.content,
         improvements_made |-> grammar_edited.changes,
         quality_scores |-> quality_scores,
         recommendations |->
            GenerateRecommendationsOf(quality_scores, final_content.content),
         cultural_assessment |-> cultural_review.assessment,
         readability_metrics |-> readability_optimized.metrics]
    : quality_scores \in {CalculateQualityScoresOf(final_content.content)}})
    : final_content \in {FinalPolishOf(mobile_optimized.content, content_type)}})
    : mobile_optimized \in {OptimizeForMobileOf(market_enhanced.content)}})
    : market_enhanced \in
        {EnhanceIndianMarketRelevanceOf(readability_optimized.content)}})
    : readability_optimized \in {OptimizeReadabilityOf(cultural_review.content)}})
    : cultural_review \in {ReviewCulturalSensitivityOf(grammar_edited.content)}})
    : grammar_edited \in {EditGrammarAndLanguageOf(c)}})

MaxEditBlocks == 2

EditBlocks ==
    <<<<"W","e"," ","s","e","l","l"," ","t","e","a","."," ">>,
      <<"V","i","s","i","t"," ","i","n","d","i","a"," ","t","o","d","a","y","."," ">>,
      <<"I","t"," ","c","o","s","t","s"," ","$","5"," ","v","e","r","y"," ","m","u","c","h","."," ">>,
      <<"O","r","d","e","r"," ","c","h","a","i"," ","b","e","f","o","r","e"," ","t","h","e"," ","d","e","a","d","l","i","n","e","!"," ">>,
      <<"#"," ","S","u","b","j","e","c","t","\n","\n">>,
      <<"P","a","y"," ","U+00E2","U+201A","U+00B9","1",",","0","0","0",",","0","0","0"," ","n","o","w","."," ">>,
      <<"C","a","l","l"," ","u","s","."," ">>>>

EditInputs == Texts(EditBlocks, MaxEditBlocks)

ContentTypes == {"social_media", "email", "blog", "article"}

\* edit_content(content, content_type, target_audience)
EditContent ==
    /\ op = "none"
    /\ op' = "edit"
    /\ result' = EditContentOf(content, args.content_type)
    /\ UNCHANGED <<content, args, passes, state>>

InitEdit ==
    /\ content \in EditInputs
    /\ args \in [content_type : ContentTypes]
    /\ op = "none"
    /\ result = NoResult
    /\ passes = 0
    /\ state = NoState

NextEdit == EditContent

SpecEdit == InitEdit /\ [][NextEdit]_vars

\* C12: in the quality_scores returned by edit_content, cultural_relevance is
\* 85 when the submitted content contains an Indian-context keyword and 40
\* when it contains none, and in the latter case the recommendation to add
\* more Indian examples is present.
C12_RelevanceFollowsSubmittedContent ==
    op = "edit" =>
        IF HasIndianContext(content)
        THEN result.quality_scores.cultural_relevance = Whole(85)
        ELSE /\ result.quality_scores.cultural_relevance = Whole(40)
             /\ \E i \in 1..Len(result.recommendations) :
                    result.recommendations[i] = RelevanceAdvice

(***************************************************************************)
(* ContentWriterAgent._extract_business_info                               *)
(* (src/src/agents/content_writer_agent.py)                                *)
(***************************************************************************)

Letters == {LowerCase[i] : i \in 1..Len(LowerCase)}

IsLetter(c) == c \in DOMAIN LowerOf \/ c \in DOMAIN UpperOf

UpperChar(c) == IF c \in DOMAIN UpperOf THEN UpperOf[c] ELSE c

\* str.title(): a letter that follows a non-letter is put in upper case, every
\* other letter in lower case
Title(s) ==
    [i \in 1..Len(s) |->
        IF i = 1 \/ ~IsLetter(s[i - 1]) THEN UpperChar(s[i]) ELSE LowerChar(s[i])]

name_patterns ==
    <<<<"r","e","s","t","a","u","r","a","n","t"," ","n","a","m","e",":">>,
      <<"b","u","s","i","n","e","s","s",":">>,
      <<"c","o","m","p","a","n","y",":">>>>

location_prefix_patterns ==
    <<<<"l","o","c","a","t","i","o","n",":">>, <<"b","a","s","e","d"," ","i","n",":">>>>

DefaultName == <<"Y","o","u","r"," ","B","u","s","i","n","e","s","s">>

DefaultLocation == <<"I","n","d","i","a">>

DefaultPriceRange == <<"U+20B9","2","0","0","-","5","0","0">>

DefaultTargetAge == <<"2","5","-","3","5">>

RupeeSign == <<"U+20B9">>

NotCaptured == {",", "\n"}

\* the least position >= i of s that holds a comma or a newline, Len(s) + 1
\* when there is none: where a run of [^,\n] from i ends
CaptureEnd(s, i) ==
    LET M == {j \in i..Len(s) : s[j] \in NotCaptured}
    IN  IF M = {} THEN Len(s) + 1 ELSE SetMin(M)

\* group(1) of prefix\s*([^,\n]+) for the occurrence of the prefix at i: \s*
\* takes the whole whitespace run, and gives characters back only when nothing
\* is left for the group; <<"no match">> when the pattern fails at i
LabelCapture(s, prefix, i) ==
    LET e == i + Len(prefix)
        d == RunEnd(s, e, Whitespace)
        c == CaptureEnd(s, d)
        back == {k \in e..(d - 1) : s[k] # "\n"}
    IN  IF ~MatchAt(s, prefix, i) THEN <<"no match">>
        ELSE IF c > d THEN <<"group", SubSeq(s, d, c - 1)>>
        ELSE IF back = {} THEN <<"no match">>
        ELSE LET k == CHOOSE x \in back : \A y \in back : y <= x
                 stop == {j \in k..(d - 1) : s[j] = "\n"}
             IN  <<"group", SubSeq(s, k, (IF stop = {} THEN d ELSE SetMin(stop)) - 1)>>

\* re.search(prefix\s*([^,\n]+), s): group(1) of the leftmost match
LabelSearch(s, prefix) ==
    LET M == {i \in 1..Len(s) : LabelCapture(s, prefix, i)[1] = "group"}
    IN  IF M = {} THEN <<"no match">> ELSE LabelCapture(s, prefix, SetMin(M))

\* group(1) of in\s+([a-z]+(?:\s+[a-z]+)*), for a match that starts at i
InCapture(s, i) ==
    LET d == RunEnd(s, i + 2, Whitespace)
        c == RunEnd(s, d, Letters \cup Whitespace)
    IN  IF /\ MatchAt(s, <<"i", "n">>, i)
           /\ d > i + 2
           /\ d <= Len(s) /\ s[d] \in Letters
           /\ c <= Len(s) /\ s[c] = ","
           /\ s[c - 1] \in Letters
        THEN <<"group", SubSeq(s, d, c - 1)>>
        ELSE <<"no match">>

InSearch(s) ==
    LET M == {i \in 1..Len(s) : InCapture(s, i)[1] = "group"}
    IN  IF M = {} THEN <<"no match">> ELSE InCapture(s, SetMin(M))

\* re.search(pattern, brief_lower) for the k-th pattern of each list
NameSearch(brief_lower, k) == LabelSearch(brief_lower, name_patterns[k])

LocationSearch(brief_lower, k) ==
    IF k <= Len(location_prefix_patterns)
    THEN LabelSearch(brief_lower, location_prefix_patterns[k])
    ELSE InSearch(brief_lower)

\* a variant that lets the pattern whose match starts first in the text decide
BusinessNameLeftmost(brief_lower) ==
    LET hits == {k \in 1..Len(name_patterns) :
                    NameSearch(brief_lower, k)[1] = "group"}
        start(k) == Find(brief_lower, name_patterns[k], 1)
    IN  IF hits = {} THEN DefaultName
        ELSE LET best == CHOOSE k \in hits : \A j \in hits : start(k) <= start(j)
             IN  Title(Strip(NameSearch(brief_lower, best)[2]))

\* the loop over name_patterns with its break
BusinessName(brief_lower) ==
    LET hits == {k \in 1..Len(name_patterns) :
                    NameSearch(brief_lower, k)[1] = "group"}
    IN  IF hits = {} THEN DefaultName
        ELSE Title(Strip(NameSearch(brief_lower, SetMin(hits))[2]))

\* the loop over location_patterns with its break
Location(brief_lower) ==
    LET hits == {k \in 1..(Len(location_prefix_patterns) + 1) :
                    LocationSearch(brief_lower, k)[1] = "group"}
    IN  IF hits = {} THEN DefaultLocation
        ELSE Title(Strip(LocationSearch(brief_lower, SetMin(hits))[2]))

\* where a match of (\d+)-(\d+) that starts at i ends (one past its last
\* character), 0 when there is no match at i
RangeEnd(s, i) ==
    LET c == RunEnd(s, i, Digits)
    IN  IF c > i /\ c + 1 <= Len(s) /\ s[c] = "-" /\ IsDigit(s[c + 1])
        THEN RunEnd(s, c + 1, Digits)
        ELSE 0

\* price_match.group(0) of re.search(r"₹(\d+)-(\d+)", brief)
PriceRange(brief) ==
    LET M == {i \in 1..Len(brief) :
                MatchAt(brief, RupeeSign, i) /\ RangeEnd(brief, i + 1) # 0}
    IN  IF M = {} THEN DefaultPriceRange
        ELSE SubSeq(brief, SetMin(M), RangeEnd(brief, SetMin(M) + 1) - 1)

\* f"{age_match.group(1)}-{age_match.group(2)}" of re.search(r"(\d+)-(\d+)", brief)
TargetAge(brief) ==
    LET M == {i \in 1..Len(brief) : RangeEnd(brief, i) # 0}
    IN  IF M = {} THEN DefaultTargetAge
        ELSE SubSeq(brief, SetMin(M), RangeEnd(brief, SetMin(M)) - 1)

industries ==
    <<[industry |-> "restaurant",
       keywords |-> <<<<"r","e","s","t","a","u","r","a","n","t">>,
                     <<"f","o","o","d">>,
                     <<"c","a","f","e">>,
                     <<"d","i","n","i","n","g">>,
                     <<"c","u","i","s","i","n","e">>>>],
      [industry |-> "technology",
       keywords |-> <<<<"t","e","c","h">>,
                     <<"s","o","f","t","w","a","r","e">>,
                     <<"a","p","p">>,
                     <<"d","i","g","i","t","a","l">>,
                     <<"a","i">>,
                     <<"s","t","a","r","t","u","p">>>>],
      [industry |-> "ecommerce",
       keywords |-> <<<<"e","c","o","m","m","e","r","c","e">>,
                     <<"o","n","l","i","n","e"," ","s","t","o","r","e">>,
                     <<"r","e","t","a","i","l">>,
                     <<"s","h","o","p","p","i","n","g">>>>],
      [industry |-> "education",
       keywords |-> <<<<"e","d","u","c","a","t","i","o","n">>,
                     <<"s","c","h","o","o","l">>,
                     <<"t","r","a","i","n","i","n","g">>,
                     <<"c","o","u","r","s","e">>,
                     <<"l","e","a","r","n","i","n","g">>>>],
      [industry |-> "healthcare",
       keywords |-> <<<<"h","e","a","l","t","h","c","a","r","e">>,
                     <<"m","e","d","i","c","a","l">>,
                     <<"c","l","i","n","i","c">>,
                     <<"h","o","s","p","i","t","a","l">>,
                     <<"w","e","l","l","n","e","s","s">>>>]>>

\* _detect_industry(brief_lower)
DetectIndustry(brief_lower) ==
    LET hits == {k \in 1..Len(industries) :
                    \E j \in 1..Len(industries[k].keywords) :
                        Contains(brief_lower, industries[k].keywords[j])}
    IN  IF hits = {} THEN "general" ELSE industries[SetMin(hits)].industry

\* _extract_offering(brief_lower)
ExtractOffering(brief_lower) ==
    IF Contains(brief_lower, <<"r","e","s","t","a","u","r","a","n","t">>)
       \/ Contains(brief_lower, <<"f","o","o","d">>)
    THEN "authentic cuisine and dining experience"
    ELSE IF Contains(brief_lower, <<"t","e","c","h">>)
            \/ Contains(brief_lower, <<"s","o","f","t","w","a","r","e">>)
    THEN "innovative technology solutions"
    ELSE IF Contains(brief_lower, <<"e","c","o","m","m","e","r","c","e">>)
    THEN "quality products with convenient shopping"
    ELSE IF Contains(brief_lower, <<"e","d","u","c","a","t","i","o","n">>)
    THEN "comprehensive learning solutions"
    ELSE "premium products and services"

usps ==
    [restaurant |->
        <<"Authentic recipes from traditional Indian kitchens",
          "Fresh ingredients sourced daily from local markets",
          "Family-friendly atmosphere with quick service">>,
     technology |->
        <<"Cutting-edge solutions built for Indian market",
          "24/7 customer support in multiple languages",
          "Affordable pricing with enterprise-grade quality">>,
     ecommerce |->
        <<"Wide selection of authentic Indian products",
          "Free delivery across major Indian cities",
          "Easy returns and genuine quality guarantee">>]

DefaultUsps ==
    <<"Trusted quality you can depend on",
      "Customer-first approach with personalized service",
      "Competitive pricing with premium experience">>

\* _extract_usp(brief_lower, usp_number); a Python list index i is the TLA+
\* index i + 1
ExtractUsp(brief_lower, usp_number) ==
    LET industry == DetectIndustry(brief_lower)
        industry_usps ==
            IF industry \in DOMAIN usps THEN usps[industry] ELSE DefaultUsps
        least == IF usp_number - 1 < Len(industry_usps) - 1
                 THEN usp_number - 1 ELSE Len(industry_usps) - 1
    IN  industry_usps[least + 1]

ExtractBusinessInfoOf(brief) ==
    LET brief_lower == Lower(brief)
    IN  [name |-> BusinessName(brief_lower),
         location |-> Location(brief_lower),
         price_range |-> PriceRange(brief),
         target_age |-> TargetAge(brief),
         industry |-> DetectIndustry(brief_lower),
         offering |-> ExtractOffering(brief_lower),
         usp_1 |-> ExtractUsp(brief_lower, 1),
         usp_2 |-> ExtractUsp(brief_lower, 2),
         usp_3 |-> ExtractUsp(brief_lower, 3)]

MaxBriefBlocks == 2

BriefBlocks ==
    <<<<"R","e","s","t","a","u","r","a","n","t"," ","N","a","m","e",":"," ","S","p","i","c","e"," ","R","o","u","t","e",","," ">>,
      <<"L","o","c","a","t","i","o","n",":"," ","B","a","n","d","r","a"," ","W","e","s","t",","," ","M","u","m","b","a","i">>,
      <<"B","u","s","i","n","e","s","s",":"," ","T","e","a"," ","H","o","u","s","e",","," ">>,
      <<"C","o","m","p","a","n","y",":"," ","A","c","m","e"," ","S","o","f","t","w","a","r","e","\n">>,
      <<"b","a","s","e","d"," ","i","n",":"," ","P","u","n","e",","," ">>,
      <<"s","h","o","p"," ","i","n"," ","n","e","w"," ","d","e","l","h","i",","," ">>,
      <<"B","u","s","i","n","e","s","s",":"," ",","," ">>,
      <<"U+20B9","1","0","0","-","3","0","0"," ","f","o","r"," ","a","g","e","s"," ","1","8","-","2","4","."," ">>>>

BriefInputs == Texts(BriefBlocks, MaxBriefBlocks)

\* _extract_business_info(brief); the brief is the content of the call
ExtractBusinessInfo ==
    /\ op = "none"
    /\ op' = "brief"
    /\ result' = ExtractBusinessInfoOf(content)
    /\ UNCHANGED <<content, args, passes, state>>

InitBrief ==
    /\ content \in BriefInputs
    /\ args = NoArgs
    /\ op = "none"
    /\ result = NoResult
    /\ passes = 0
    /\ state = NoState

NextBrief == ExtractBusinessInfo

SpecBrief == InitBrief /\ [][NextBrief]_vars

(***************************************************************************)
(* Claims about _extract_business_info                                     *)
(***************************************************************************)

SpiceRouteBrief ==
    <<"R","e","s","t","a","u","r","a","n","t"," ","N","a","m","e",":"," ",
      "S","p","i","c","e"," ","R","o","u","t","e",","," ","L","o","c","a",
      "t","i","o","n",":"," ","B","a","n","d","r","a"," ","W","e","s","t",
      ","," ","M","u","m","b","a","i">>

\* C13: for the brief "Restaurant Name: Spice Route, Location: Bandra West,
\* Mumbai", _extract_business_info returns name equal to "Spice Route" and a
\* location that contains "Bandra West, Mumbai".
C13_SpiceRouteNameAndLocation ==
    (op = "brief" /\ content = SpiceRouteBrief) =>
        /\ result.name = <<"S","p","i","c","e"," ","R","o","u","t","e">>
        /\ Contains(result.location, <<"B","a","n","d","r","a"," ","W","e","s","t",","," ","M","u","m","b","a","i">>)

\* where the leftmost match of the k-th name pattern starts, 0 when the
\* pattern matches nowhere
NameMatchStart(brief_lower, k) ==
    LET M == {i \in 1..Len(brief_lower) :
                LabelCapture(brief_lower, name_patterns[k], i)[1] = "group"}
    IN  IF M = {} THEN 0 ELSE SetMin(M)

\* C14: for the business name and the location, the patterns are tried in
\* their listed order and the first listed pattern that matches anywhere in
\* the lowercased brief decides the value (stripped and title-cased), even when
\* a later-listed pattern matches earlier in the text; when no pattern matches
\* the field keeps its default.
C14_FirstListedPatternWins ==
    op = "brief" =>
        LET low == Lower(content)
        IN  /\ \A k \in 1..Len(name_patterns) :
                  (/\ NameSearch(low, k)[1] = "group"
                   /\ \A j \in 1..(k - 1) : NameSearch(low, j)[1] = "no match")
                  => result.name = Title(Strip(NameSearch(low, k)[2]))
            /\ (\A k \in 1..Len(name_patterns) : NameSearch(low, k)[1] = "no match")
                  => result.name = DefaultName
            /\ \A k \in 1..(Len(location_prefix_patterns) + 1) :
                  (/\ LocationSearch(low, k)[1] = "group"
                   /\ \A j \in 1..(k - 1) : LocationSearch(low, j)[1] = "no match")
                  => result.location = Title(Strip(LocationSearch(low, k)[2]))
            /\ (\A k \in 1..(Len(location_prefix_patterns) + 1) :
                    LocationSearch(low, k)[1] = "no match")
                  => result.location = DefaultLocation

\* "business:" matches before "restaurant name:" in the brief and captures
\* another value, and the name returned is the one after "restaurant name:"
C14_Witness ==
    /\ op = "brief"
    /\ LET low == Lower(content)
       IN  /\ NameMatchStart(low, 1) # 0
           /\ NameMatchStart(low, 2) # 0
           /\ NameMatchStart(low, 2) < NameMatchStart(low, 1)
           /\ NameSearch(low, 2)[2] # NameSearch(low, 1)[2]
           /\ result.name = <<"S","p","i","c","e"," ","R","o","u","t","e">>
           /\ NameSearch(low, 2)[2] = <<"t","e","a"," ","h","o","u","s","e">>

BriefFields == {"name", "location", "price_range", "target_age"}

\* C15: for every brief, each of name, location, price_range and target_age is
\* either a value captured from the brief or that field's default ("Your
\* Business", "India", the default price range, "25-35"), and no field is
\* returned as an empty string.
C15_FieldsCapturedOrDefault ==
    op = "brief" =>
        /\ \A f \in BriefFields : result[f] # <<>>
        /\ result.name = DefaultName
              \/ Contains(Lower(content), Lower(result.name))
        /\ result.location = DefaultLocation
              \/ Contains(Lower(content), Lower(result.location))
        /\ result.price_range = DefaultPriceRange
              \/ Contains(content, result.price_range)
        /\ result.target_age = DefaultTargetAge
              \/ Contains(content, result.target_age)

(***************************************************************************)
(* Further claim about _calculate_quality_scores                           *)
(***************************************************************************)

\* C16: _calculate_quality_scores always returns a record holding all five
\* score fields, and for empty content every sub-score in it,
\* cultural_relevance included, is 0.0, so overall_quality is 0.0 as well.
C16_EmptyContentAllScoresZero ==
    op = "scores" =>
        /\ DOMAIN result = ScoreFields
        /\ content = <<>> => \A f \in ScoreFields : FracEq(result[f], Whole(0))

(***************************************************************************)
(* BaseAgent.validate_content_quality (src/src/agents/base_agent.py)       *)
(***************************************************************************)

ShortSentenceWords == 15

ShortParagraphWords == 50

check_sensitive_terms ==
    <<<<"b","a","c","k","w","a","r","d">>,
      <<"p","r","i","m","i","t","i","v","e">>,
      <<"t","h","i","r","d"," ","w","o","r","l","d">>,
      <<"d","e","v","e","l","o","p","i","n","g"," ","c","o","u","n","t","r","y">>>>

check_indian_terms ==
    <<<<"i","n","d","i","a">>,
      <<"i","n","d","i","a","n">>,
      <<"r","u","p","e","e">>,
      <<"U+00E2","U+201A","U+00B9">>,
      <<"l","a","k","h">>,
      <<"c","r","o","r","e">>,
      <<"m","u","m","b","a","i">>,
      <<"d","e","l","h","i">>,
      <<"b","a","n","g","a","l","o","r","e">>,
      <<"c","h","e","n","n","a","i">>,
      <<"k","o","l","k","a","t","a">>,
      <<"h","y","d","e","r","a","b","a","d">>,
      <<"d","i","w","a","l","i">>,
      <<"h","o","l","i">>,
      <<"c","r","i","c","k","e","t">>,
      <<"b","o","l","l","y","w","o","o","d">>>>

cta_phrases ==
    <<<<"c","o","n","t","a","c","t"," ","u","s">>,
      <<"c","a","l","l"," ","n","o","w">>,
      <<"v","i","s","i","t">>,
      <<"c","l","i","c","k"," ","h","e","r","e">>,
      <<"l","e","a","r","n"," ","m","o","r","e">>,
      <<"g","e","t"," ","s","t","a","r","t","e","d">>,
      <<"s","i","g","n"," ","u","p">>,
      <<"s","u","b","s","c","r","i","b","e">>,
      <<"d","o","w","n","l","o","a","d">>,
      <<"b","o","o","k"," ","n","o","w">>>>

\* any(term in content_lower for term in terms)
AnyIn(content_lower, terms) ==
    \E k \in 1..Len(terms) : Contains(content_lower, terms[k])

\* sum(1 for p in pieces if len(p.split()) <= limit)
ShortPieces(pieces, limit) ==
    Cardinality({i \in 1..Len(pieces) : WordCount(pieces[i]) <= limit})

\* min((short / total) * 100, 100.0), and 0.0 when the list of pieces is empty
ShortShare(pieces, limit) ==
    IF Len(pieces) = 0 THEN Whole(0)
    ELSE FracClamp(FracNorm(Frac(100 * ShortPieces(pieces, limit), Len(pieces))),
                   0, 100)

\* _check_readability(content)
CheckReadability(c) == ShortShare(Split(c, Period), ShortSentenceWords)

\* _check_cultural_sensitivity(content)
CheckCulturalSensitivity(c) == ~AnyIn(Lower(c), check_sensitive_terms)

\* _check_indian_context(content)
CheckIndianContext(c) == AnyIn(Lower(c), check_indian_terms)

\* _check_mobile_friendliness(content)
CheckMobileFriendliness(c) == ShortShare(Split(c, BlankLine), ShortParagraphWords)

\* _check_cta_presence(content)
CheckCtaPresence(c) == AnyIn(Lower(c), cta_phrases)

\* a bool taken as a number, as sum() takes it
AsNumber(b) == IF b THEN Whole(1) ELSE Whole(0)

\* every value of quality_check is an int or a float (a bool is an int), so
\* all five enter the average
ValidateContentQualityOf(c) ==
    LET readability == CheckReadability(c)
        cultural_appropriateness == CheckCulturalSensitivity(c)
        indian_references == CheckIndianContext(c)
        mobile_optimization == CheckMobileFriendliness(c)
        call_to_action == CheckCtaPresence(c)
        total == FracAdd(FracAdd(FracAdd(readability,
                                         AsNumber(cultural_appropriateness)),
                                 FracAdd(AsNumber(indian_references),
                                         mobile_optimization)),
                         AsNumber(call_to_action))
    IN  [readability |-> readability,
         cultural_appropriateness |-> cultural_appropriateness,
         indian_references |-> indian_references,
         mobile_optimization |-> mobile_optimization,
         call_to_action |-> call_to_action,
         overall_score |-> FracTimes(total, 1, 5)]

MaxValidateBlocks == 3

ValidateBlocks ==
    <<Sentence(XWords(ShortSentenceWords + 1)),
      XWords(ShortParagraphWords + 1) \o <<" ">>,
      BlankLine,
      <<"V","i","s","i","t"," ","i","n","d","i","a","."," ">>,
      <<"B","a","c","k","w","a","r","d","."," ">>>>

ValidateInputs == Texts(ValidateBlocks, MaxValidateBlocks)

\* validate_content_quality(content)
ValidateContentQuality ==
    /\ op = "none"
    /\ op' = "validate"
    /\ result' = ValidateContentQualityOf(content)
    /\ UNCHANGED <<content, args, passes, state>>

InitValidate ==
    /\ content \in ValidateInputs
    /\ args = NoArgs
    /\ op = "none"
    /\ result = NoResult
    /\ passes = 0
    /\ state = NoState

NextValidate == ValidateContentQuality

SpecValidate == InitValidate /\ [][NextValidate]_vars

\* C17: validate_content_quality on empty content returns zeroed numeric
\* scores: _check_readability("") is 0.0 and _check_mobile_friendliness("") is
\* 0.0.
C17_EmptyContentChecksZero ==
    (op = "validate" /\ content = <<>>) =>
        /\ FracEq(result.readability, Whole(0))
        /\ FracEq(result.mobile_optimization, Whole(0))

(***************************************************************************)
(* SEOSpecialistAgent.optimize_content_for_seo                             *)
(* (src/src/agents/seo_specilist_agent.py)                                 *)
(***************************************************************************)

\* seq[:n]
Take(seq, n) == SubSeq(seq, 1, IF n < Len(seq) THEN n ELSE Len(seq))

\* str.replace(old, new), an empty old included: new is then put before every
\* character and after the last
PyReplace(s, old, new) ==
    IF old = <<>>
    THEN Flatten([i \in 1..Len(s) |-> new \o <<s[i]>>]) \o new
    ELSE Replace(s, old, new)

CommaSpace == <<",", " ">>

PrimaryCount == 3

RegionCount == 2

indian_modifiers ==
    <<<<"b","e","s","t">>,
      <<"t","o","p">>,
      <<"g","e","n","u","i","n","e">>,
      <<"t","r","u","s","t","e","d">>,
      <<"c","h","e","a","p">>,
      <<"a","f","f","o","r","d","a","b","l","e">>>>

service_modifiers ==
    <<<<"o","n","l","i","n","e">>,
      <<"h","o","m","e"," ","d","e","l","i","v","e","r","y">>,
      <<"n","e","a","r"," ","m","e">>,
      <<"b","o","o","k","i","n","g">>,
      <<"s","e","r","v","i","c","e">>>>

\* _get_indian_keyword_variations(keyword, regional_focus)
GetIndianKeywordVariations(keyword, regional_focus) ==
    LET regions == Take(regional_focus, RegionCount)
        lead == Take(indian_modifiers, 3)
        trail == Take(service_modifiers, 2)
    IN  <<keyword>>
        \o Flatten([i \in 1..Len(regions) |->
                <<keyword \o <<" ">> \o regions[i],
                  keyword \o <<" ","i","n"," ">> \o regions[i],
                  regions[i] \o <<" ">> \o keyword>>])
        \o [i \in 1..Len(lead) |-> lead[i] \o <<" ">> \o keyword]
        \o [i \in 1..Len(trail) |-> keyword \o <<" ">> \o trail[i]]

business_mapping ==
    <<<<<<"r","e","s","t","a","u","r","a","n","t">>, "restaurant">>,
      <<<<"f","o","o","d">>, "restaurant">>,
      <<<<"t","e","c","h">>, "technology">>,
      <<<<"s","o","f","t","w","a","r","e">>, "technology">>,
      <<<<"e","c","o","m","m","e","r","c","e">>, "ecommerce">>,
      <<<<"o","n","l","i","n","e">>, "ecommerce">>,
      <<<<"r","e","t","a","i","l">>, "ecommerce">>>>

\* _detect_business_type(content_type)
DetectBusinessType(content_type) ==
    LET content_lower == Lower(content_type)
        hits == {k \in 1..Len(business_mapping) :
                    Contains(content_lower, business_mapping[k][1])}
    IN  IF hits = {} THEN "general" ELSE business_mapping[SetMin(hits)][2]

\* indian_keywords_db["business_types"], each list cut to the five entries
\* that _analyze_keywords takes
business_types ==
    [restaurant |->
        <<<<"r","e","s","t","a","u","r","a","n","t"," ","n","e","a","r"," ","m","e">>,
          <<"b","e","s","t"," ","f","o","o","d">>,
          <<"h","o","m","e"," ","d","e","l","i","v","e","r","y">>,
          <<"o","n","l","i","n","e"," ","o","r","d","e","r">>,
          <<"v","e","g"," ","r","e","s","t","a","u","r","a","n","t">>>>,
     technology |->
        <<<<"s","o","f","t","w","a","r","e"," ","c","o","m","p","a","n","y">>,
          <<"a","p","p"," ","d","e","v","e","l","o","p","m","e","n","t">>,
          <<"w","e","b","s","i","t","e"," ","d","e","s","i","g","n">>,
          <<"d","i","g","i","t","a","l"," ","m","a","r","k","e","t","i","n","g">>,
          <<"c","l","o","u","d"," ","s","e","r","v","i","c","e","s">>>>,
     ecommerce |->
        <<<<"o","n","l","i","n","e"," ","s","h","o","p","p","i","n","g">>,
          <<"c","a","s","h"," ","o","n"," ","d","e","l","i","v","e","r","y">>,
          <<"f","r","e","e"," ","d","e","l","i","v","e","r","y">>,
          <<"d","i","s","c","o","u","n","t">>,
          <<"s","a","l","e">>>>]

seasonal_keywords ==
    <<<<"d","i","w","a","l","i"," ","o","f","f","e","r","s">>,
      <<"f","e","s","t","i","v","a","l"," ","s","a","l","e">>,
      <<"m","o","n","s","o","o","n"," ","s","p","e","c","i","a","l">>,
      <<"s","u","m","m","e","r"," ","c","o","l","l","e","c","t","i","o","n">>,
      <<"w","i","n","t","e","r"," ","w","e","a","r">>,
      <<"n","e","w"," ","y","e","a","r"," ","d","e","a","l","s">>,
      <<"h","o","l","i"," ","c","e","l","e","b","r","a","t","i","o","n">>,
      <<"e","i","d"," ","s","p","e","c","i","a","l">>,
      <<"i","n","d","e","p","e","n","d","e","n","c","e"," ","d","a","y"," ","o","f","f","e","r">>,
      <<"w","e","d","d","i","n","g"," ","s","e","a","s","o","n">>,
      <<"b","a","c","k"," ","t","o"," ","s","c","h","o","o","l">>,
      <<"k","a","r","v","a"," ","c","h","a","u","t","h">>>>

\* the four local variations of a keyword for one region
LocalVariations(keyword, region) ==
    <<keyword \o <<" ","i","n"," ">> \o region,
      keyword \o <<" ">> \o region,
      <<"b","e","s","t"," ">> \o keyword \o <<" ">> \o region,
      keyword \o <<" ","n","e","a","r"," ">> \o region>>

\* the four voice-search variations of a keyword
VoiceVariations(keyword) ==
    <<<<"b","e","s","t"," ">> \o keyword \o <<" ","n","e","a","r"," ","m","e">>,
      <<"h","o","w"," ","t","o"," ","f","i","n","d"," ">> \o keyword,
      <<"w","h","e","r","e"," ","c","a","n"," ","i"," ","g","e","t"," ">> \o keyword,
      <<"w","h","a","t"," ","i","s"," ","t","h","e"," ","c","o","s","t"," ","o","f"," ">> \o keyword>>

Raised(error) == [raised |-> error]

HasRaised(r) == "raised" \in DOMAIN r

\* the variable keyword as the first loop leaves it: the last of the first
\* three target keywords, and unbound when the loop body never ran
KeywordIsBound(target_keywords) == Take(target_keywords, PrimaryCount) # <<>>

LeftoverKeyword(target_keywords) ==
    LET top == Take(target_keywords, PrimaryCount) IN top[Len(top)]

\* _analyze_keywords(target_keywords, regional_focus, content_type): the
\* analysis, or the error raised when the local-keyword loop reads a keyword
\* that was never bound
AnalyzeKeywords(target_keywords, regional_focus, content_type) ==
    LET top == Take(target_keywords, PrimaryCount)
        primary_keywords ==
            Flatten([i \in 1..Len(top) |->
                GetIndianKeywordVariations(top[i], regional_focus)])
        business_type == DetectBusinessType(content_type)
        voice == Take(primary_keywords, 3)
    IN  IF regional_focus # <<>> /\ ~KeywordIsBound(target_keywords)
        THEN Raised("UnboundLocalError")
        ELSE [primary_keywords |-> primary_keywords,
              secondary_keywords |->
                 IF business_type \in DOMAIN business_types
                 THEN business_types[business_type] ELSE <<>>,
              long_tail_keywords |-> <<>>,
              local_keywords |->
                 Flatten([i \in 1..Len(regional_focus) |->
                    LocalVariations(LeftoverKeyword(target_keywords),
                                    regional_focus[i])]),
              voice_search_keywords |->
                 Flatten([i \in 1..Len(voice) |-> VoiceVariations(voice[i])]),
              seasonal_keywords |-> seasonal_keywords,
              keyword_difficulty |-> <<>>]

\* the first-paragraph step of _optimize_content_keywords
FirstParagraphStep(c, primary_keywords) ==
    LET first_paragraph == Split(c, BlankLine)[1]
        first_sentence == Split(first_paragraph, Period)[1]
        enhanced_first ==
            first_sentence \o <<" ","f","o","c","u","s","i","n","g"," ","o","n"," ">> \o primary_keywords[1] \o Period
    IN  IF /\ primary_keywords # <<>>
           /\ ~Contains(Lower(first_paragraph), Lower(primary_keywords[1]))
        THEN PyReplace(c, first_paragraph,
                       PyReplace(first_paragraph, first_sentence \o Period,
                                 enhanced_first))
        ELSE c

\* the body of the loop over paragraphs[1:]; i is the Python index of the
\* paragraph
SecondaryStep(paragraph, i, secondary_keywords) ==
    LET sentences == Split(paragraph, Period)
    IN  IF /\ i < Len(secondary_keywords)
           /\ ~Contains(Lower(paragraph), Lower(secondary_keywords[i]))
           /\ Len(sentences) > 1
        THEN PyReplace(paragraph, sentences[2],
                       Strip(sentences[2]) \o <<" ","T","h","i","s"," ","i","n","c","l","u","d","e","s"," ">>
                       \o secondary_keywords[i])
        ELSE paragraph

\* _optimize_content_keywords(content, keyword_analysis); long_tail_keywords
\* is never filled by _analyze_keywords, so no FAQ section is ever added
OptimizeContentKeywords(c, keyword_analysis) ==
    LET step1 == FirstParagraphStep(c, Take(keyword_analysis.primary_keywords, 3))
        secondary_keywords == Take(keyword_analysis.secondary_keywords, 3)
        paragraphs == Split(step1, BlankLine)
    IN  Join([k \in 1..Len(paragraphs) |->
                IF k = 1 THEN paragraphs[1]
                ELSE SecondaryStep(paragraphs[k], k - 1, secondary_keywords)],
             BlankLine)

TitleLimit == 60

DescriptionLimit == 160

SentenceLimit == 100

TwitterLimit == 140

\* _create_meta_elements(content, keyword_analysis, regional_focus)
CreateMetaElements(c, keyword_analysis, regional_focus) ==
    LET primary_keyword ==
            IF keyword_analysis.primary_keywords # <<>>
            THEN keyword_analysis.primary_keywords[1] ELSE <<>>
        region == IF regional_focus # <<>> THEN regional_focus[1]
                  ELSE <<"I","n","d","i","a">>
        long_title == Title(primary_keyword) \o <<" ","i","n"," ">> \o region
                      \o <<" ","|"," ","T","r","u","s","t","e","d"," ","S","e","r","v","i","c","e"," ","P","r","o","v","i","d","e","r">>
        meta_title ==
            IF Len(long_title) > TitleLimit
            THEN Title(primary_keyword) \o <<" ">> \o region
                 \o <<" ","|"," ","Q","u","a","l","i","t","y"," ","S","e","r","v","i","c","e">>
            ELSE long_title
        first_sentence == Take(Split(c, Period)[1], SentenceLimit)
        long_description ==
            first_sentence \o <<"."," ","E","x","p","e","r","t"," ">> \o primary_keyword
            \o <<" ","i","n"," ">> \o region
            \o <<"."," ","C","o","n","t","a","c","t"," ","u","s"," ","f","o","r",
              " ","q","u","a","l","i","t","y"," ","s","e","r","v","i","c","e",
              " ","a","n","d"," ","c","o","m","p","e","t","i","t","i","v","e",
              " ","p","r","i","c","e","s",".">>
        meta_description ==
            IF Len(long_description) > DescriptionLimit
            THEN <<"P","r","o","f","e","s","s","i","o","n","a","l"," ">> \o primary_keyword
                 \o <<" ","i","n"," ">> \o region
                 \o <<"."," ","Q","u","a","l","i","t","y"," ","s","e","r","v",
                   "i","c","e",","," ","c","o","m","p","e","t","i","t","i",
                   "v","e"," ","p","r","i","c","e","s","."," ","C","o","n",
                   "t","a","c","t"," ","u","s"," ","t","o","d","a","y"," ",
                   "f","o","r"," ","e","x","p","e","r","t"," ","a","s","s",
                   "i","s","t","a","n","c","e",".">>
            ELSE long_description
    IN  [title |-> meta_title,
         description |-> meta_description,
         keywords |->
            Join(Take(keyword_analysis.primary_keywords, 5)
                    \o Take(keyword_analysis.local_keywords, 3), CommaSpace),
         og_title |-> meta_title,
         og_description |-> meta_description,
         og_type |-> "website",
         twitter_card |-> "summary",
         twitter_title |-> meta_title,
         twitter_description |-> Take(meta_description, TwitterLimit)]

\* _generate_technical_seo_recommendations(content_type, regional_focus)
TechnicalSeoRecommendations ==
    [page_speed |->
        [priority |->
            "critical",
         recommendations |->
            <<"Optimize images for WebP format (reduces size by 25-35%)",
              "Implement lazy loading for images below the fold",
              "Minify CSS and JavaScript files",
              "Use CDN for faster content delivery across India",
              "Optimize for 3G/4G speeds common in tier-2/3 cities">>],
     mobile_optimization |->
        [priority |->
            "critical",
         recommendations |->
            <<"Ensure mobile-responsive design",
              "Use large, touch-friendly buttons (minimum 44px)",
              "Implement click-to-call functionality",
              "Optimize forms for mobile input",
              "Test on popular Indian mobile devices">>],
     schema_markup |->
        [priority |->
            "high",
         recommendations |->
            <<"Implement LocalBusiness schema with Indian address format",
              "Add Organization schema with contact information",
              "Use Product schema for e-commerce items",
              "Implement FAQ schema for voice search optimization",
              "Add Review schema for customer testimonials">>],
     internal_linking |->
        [priority |->
            "medium",
         recommendations |->
            <<"Link to location-specific pages for each target city",
              "Create topic clusters around main services",
              "Link to customer testimonials and case studies",
              "Add breadcrumb navigation for better UX",
              "Link to contact and booking pages from all content">>]]

\* _optimize_local_seo(content, regional_focus)
OptimizeLocalSeo(regional_focus) ==
    [google_my_business |->
        [optimization_checklist |->
            <<"Complete business information with Indian address format",
              "Add local phone number with +91 country code",
              "Upload high-quality photos of business and products",
              "Regular posts about services and offers",
              "Respond to all customer reviews promptly",
              "Add business hours in IST timezone",
              "Select appropriate business categories">>],
     local_citations |->
        [recommended_directories |->
            <<"JustDial - Primary Indian business directory",
              "Sulekha - Local services directory",
              "IndiaMART - B2B marketplace",
              "Yellow Pages India - Traditional directory",
              "Industry-specific directories">>,
         citation_consistency |->
            <<"Ensure consistent business name across all platforms",
              "Use standard Indian address format",
              "Maintain consistent phone number format",
              "Keep website URL consistent everywhere">>],
     location_pages |->
        [recommendations |->
            <<<<"Create dedicated pages for each target city: ",
                   Join(regional_focus, CommaSpace)>>,
              "Include local landmarks and neighborhoods in content",
              "Add local customer testimonials and case studies",
              "Include local contact information and directions",
              "Optimize for local search terms and voice queries">>],
     local_content_strategy |->
        [content_ideas |->
            <<"Local event participation and sponsorships",
              "Regional festival offers and celebrations",
              "Partnerships with local businesses",
              "Community service initiatives",
              "Local market insights and trends">>]]

\* _predict_seo_performance(keyword_analysis, regional_focus)
PredictSeoPerformance(keyword_analysis, regional_focus) ==
    LET primary_keywords == Len(keyword_analysis.primary_keywords)
        local_keywords == Len(keyword_analysis.local_keywords)
        voice_keywords == Len(keyword_analysis.voice_search_keywords)
        raw == primary_keywords * 15 + local_keywords * 10 + voice_keywords * 5
    IN  [overall_seo_score |-> IF raw > 100 THEN 100 ELSE raw,
         ranking_potential |->
            [local_searches |-> IF local_keywords > 10 THEN "High" ELSE "Medium",
             voice_searches |-> IF voice_keywords > 15 THEN "High" ELSE "Medium",
             mobile_searches |-> "High",
             branded_searches |-> "Medium"],
         expected_improvements |->
            <<<<"20-30% increase in local search visibility for ",
                Join(Take(regional_focus, 2), CommaSpace)>>,
              "15-25% improvement in voice search rankings",
              "Improved mobile search performance and user experience",
              "Better featured snippet opportunities for FAQ content">>,
         timeline_expectations |->
            [local_seo |-> "2-4 weeks for initial improvements",
             organic_rankings |-> "3-6 months for significant movement",
             voice_search |-> "1-3 months for optimization benefits",
             technical_seo |-> "Immediate improvements after implementation"]]

\* _generate_comprehensive_recommendations(seo_result)
ComprehensiveRecommendations(keyword_analysis) ==
    When(Len(keyword_analysis.primary_keywords) < 3,
         "Add more primary keywords focused on Indian market search terms")
    \o When(Len(keyword_analysis.local_keywords) < 5,
            "Expand local keyword targeting for better regional visibility")
    \o <<"Implement mobile-first design optimized for Indian internet speeds",
         "Add structured data markup for better search result appearance",
         "Optimize images with Indian cultural context in alt text",
         "Create location-specific landing pages for each target city",
         "Add FAQ section optimized for voice search queries",
         "Include customer testimonials with local context",
         "Create content around seasonal festivals and events",
         "Add internal links to related services and location pages",
         "Claim and optimize Google My Business listing",
         "Build citations in major Indian business directories",
         "Encourage customer reviews and respond promptly",
         "Create content about local community involvement">>

\* optimize_content_for_seo(content, target_keywords, content_type,
\* regional_focus): the result record, or the error that _analyze_keywords
\* raised
OptimizeContentForSeoOf(c, target_keywords, content_type, regional_focus) ==
    LET keyword_analysis ==
            AnalyzeKeywords(target_keywords, regional_focus, content_type)
        optimized_content == OptimizeContentKeywords(c, keyword_analysis)
    IN  IF HasRaised(keyword_analysis) THEN keyword_analysis
        ELSE [original_content |-> c,
              optimized_content |-> optimized_content,
              keyword_analysis |-> keyword_analysis,
              seo_recommendations |-> ComprehensiveRecommendations(keyword_analysis),
              meta_elements |->
                 CreateMetaElements(optimized_content, keyword_analysis,
                                    regional_focus),
              technical_seo |-> TechnicalSeoRecommendations,
              local_seo |-> OptimizeLocalSeo(regional_focus),
              performance_predictions |->
                 PredictSeoPerformance(keyword_analysis, regional_focus)]

MaxKeywords == 3

MaxRegions == 2

KeywordPool ==
    <<<<"t","e","a">>,
      <<"c","h","a","i"," ","s","h","o","p">>,
      <<"b","e","s","t"," ","f","o","o","d">>,
      <<"s","n","a","c","k","s">>,
      <<"s","w","e","e","t","s">>>>

RegionPool ==
    <<<<"P","u","n","e">>,
      <<"D","e","l","h","i">>,
      <<"M","u","m","b","a","i">>,
      <<"G","o","a">>>>

SeoContents ==
    {<<>>,
     <<"W","e"," ","s","e","l","l"," ","t","e","a","."," ","F","r","e","s","h",
       " ","d","a","i","l","y",".">>,
     <<"H","e","l","l","o">>,
     <<"W","e","l","c","o","m","e",".","\n","\n","B","e","s","t"," ","f","o",
       "o","d"," ","h","e","r","e","."," ","C","o","m","e"," ","i","n",".","\n",
       "\n","O","p","e","n",".","\n","\n","B","y","e","."," ","N","o","w",".">>,
     <<"S","n","a","c","k","s"," ","f","o","r"," ","a","l","l",".","\n","\n",
       "C","a","s","h"," ","o","n"," ","d","e","l","i","v","e","r","y","."," ",
       "A","l","w","a","y","s",".">>}

SeoContentTypes ==
    {<<"b","l","o","g">>,
     <<"R","e","s","t","a","u","r","a","n","t"," ","p","a","g","e">>,
     <<"o","n","l","i","n","e"," ","s","t","o","r","e">>}

SeoArgs ==
    {[target_keywords |-> Take(KeywordPool, k),
      content_type |-> t,
      regional_focus |-> Take(RegionPool, r)] :
        k \in 0..MaxKeywords, t \in SeoContentTypes, r \in 0..MaxRegions}

\* optimize_content_for_seo(content, target_keywords, content_type,
\* regional_focus)
OptimizeContentForSeo ==
    /\ op = "none"
    /\ op' = "seo"
    /\ result' = OptimizeContentForSeoOf(content, args.target_keywords,
                                         args.content_type, args.regional_focus)
    /\ UNCHANGED <<content, args, passes, state>>

InitSeo ==
    /\ content \in SeoContents
    /\ args \in SeoArgs
    /\ op = "none"
    /\ result = NoResult
    /\ passes = 0
    /\ state = NoState

NextSeo == OptimizeContentForSeo

SpecSeo == InitSeo /\ [][NextSeo]_vars

SeoFields ==
    {"original_content", "optimized_content", "keyword_analysis",
     "seo_recommendations", "meta_elements", "technical_seo", "local_seo",
     "performance_predictions"}

\* C18: optimize_content_for_seo returns a complete result record without
\* raising for every combination of target-keyword list and region list,
\* including an empty target_keywords list together with a non-empty
\* regional_focus list.
C18_SeoAlwaysReturnsFullRecord ==
    op = "seo" => ~HasRaised(result) /\ DOMAIN result = SeoFields

(***************************************************************************)
(* BaseAgent._is_termination_msg (src/src/agents/base_agent.py)            *)
(***************************************************************************)

termination_phrases ==
    <<<<"f","i","n","a","l"," ","c","o","n","t","e","n","t"," ","a","p","p","r","o","v","e","d">>,
      <<"t","a","s","k"," ","c","o","m","p","l","e","t","e","d">>,
      <<"c","o","n","t","e","n","t"," ","r","e","a","d","y"," ","f","o","r"," ","p","u","b","l","i","c","a","t","i","o","n">>,
      <<"t","e","r","m","i","n","a","t","e">>,
      <<"a","l","l"," ","r","e","q","u","i","r","e","m","e","n","t","s"," ","m","e","t">>,
      <<"p","r","o","j","e","c","t"," ","c","o","m","p","l","e","t","e","d"," ","s","u","c","c","e","s","s","f","u","l","l","y">>>>

Returned(value) == [returned |-> value]

\* the values a message holds under a key: a str, or None
Str(text) == [type |-> "str", value |-> text]

NoneValue == [type |-> "NoneType"]

\* message.get("content", ""): the value under the key, "" when the key is
\* missing
GetContent(message) ==
    IF "content" \in DOMAIN message THEN message.content ELSE Str(<<>>)

\* _is_termination_msg(message); None has no method lower
IsTerminationMsg(message) ==
    IF GetContent(message).type # "str" THEN Raised("AttributeError")
    ELSE Returned(AnyIn(Lower(GetContent(message).value), termination_phrases))

MaxMessageBlocks == 2

MessageBlocks ==
    <<<<"F","I","N","A","L"," ","C","O","N","T","E","N","T"," ","A","P","P","R","O","V","E","D">>,
      <<"T","a","s","k"," ","C","o","m","p","l","e","t","e","d","."," ">>,
      <<"C","o","n","t","e","n","t"," ","r","e","a","d","y"," ","f","o","r"," ","p","u","b","l","i","c","a","t","i","o","n">>,
      <<"P","l","e","a","s","e"," ","T","E","R","M","I","N","A","T","E">>,
      <<"A","l","l"," ","R","e","q","u","i","r","e","m","e","n","t","s"," ","M","e","t">>,
      <<"p","r","o","j","e","c","t"," ","c","o","m","p","l","e","t","e","d"," ","s","u","c","c","e","s","s","f","u","l","l","y">>,
      <<"F","i","n","a","l"," ","c","o","n","t","e","n","t"," ">>,
      <<"n","o","t"," ","a","p","p","r","o","v","e","d","."," ">>>>

\* messages with a text, with the content None, and without the key
Messages ==
    {[role |-> "user", content |-> Str(t)] : t \in Texts(MessageBlocks, MaxMessageBlocks)}
    \cup {[role |-> "assistant", content |-> NoneValue], [role |-> "user"]}

\* the agent runtime hands a message to is_termination_msg
CheckTermination ==
    /\ op = "none"
    /\ op' = "termination"
    /\ result' = IsTerminationMsg(args.message)
    /\ UNCHANGED <<content, args, passes, state>>

InitTermination ==
    /\ content = <<>>
    /\ args \in [message : Messages]
    /\ op = "none"
    /\ result = NoResult
    /\ passes = 0
    /\ state = NoState

NextTermination == CheckTermination

SpecTermination == InitTermination /\ [][NextTermination]_vars

\* the message has a text that contains one of the six phrases, whatever the
\* letter case
NamesTermination(message) ==
    /\ "content" \in DOMAIN message
    /\ message.content.type = "str"
    /\ \E k \in 1..Len(termination_phrases) :
          \E i \in 1..Len(message.content.value) :
              MatchAt(Lower(message.content.value), termination_phrases[k], i)

\* C19: _is_termination_msg returns True for every message whose content
\* contains "FINAL CONTENT APPROVED" or another of the six termination phrases
\* in any letter case, and returns False, without raising, for every message
\* whose content contains none of them, a message with no content included.
C19_TerminationDecided ==
    op = "termination" =>
        result = Returned(NamesTermination(args.message))

(***************************************************************************)
(* ContentWriterAgent.generate_content_by_type                             *)
(* (src/src/agents/content_writer_agent.py)                                *)
(***************************************************************************)

\* the methods class ContentWriterAgent defines
writer_methods ==
    {"__init__", "get_system_message", "get_specialization",
     "_get_writing_styles", "_load_indian_examples", "_get_cultural_hooks",
     "_get_common_hindi_phrases", "_get_content_templates",
     "generate_content_by_type", "_generate_social_media_campaign",
     "_create_instagram_posts", "_create_facebook_posts",
     "_create_linkedin_posts", "_create_whatsapp_messages",
     "_extract_business_info", "_detect_industry", "_extract_offering",
     "_extract_usp"}

\* the methods it inherits from BaseAgent
base_methods ==
    {"__init__", "get_system_message", "get_specialization", "_create_agent",
     "_enhance_system_message", "_enhance_llm_config",
     "_get_indian_market_context", "_get_cultural_guidelines",
     "_get_performance_standards", "_is_termination_msg",
     "_load_default_regional_config", "get_agent_info",
     "update_performance_metrics", "save_conversation_log",
     "get_cultural_insights", "validate_content_quality",
     "_check_readability", "_check_cultural_sensitivity",
     "_check_indian_context", "_check_mobile_friendliness",
     "_check_cta_presence"}

\* self.<name>: the bound method, or AttributeError when neither class
\* defines it
HasAttr(name) == name \in writer_methods \cup base_methods

\* the content_generators dict, in the order its values are evaluated
content_generators ==
    <<[key |-> "social_media_campaign", method |-> "_generate_social_media_campaign"],
      [key |-> "blog_article", method |-> "_generate_blog_article"],
      [key |-> "email_campaign", method |-> "_generate_email_campaign"],
      [key |-> "website_content", method |-> "_generate_website_content"],
      [key |-> "product_description", method |-> "_generate_product_description"],
      [key |-> "whatsapp_business", method |-> "_generate_whatsapp_content"]>>

GeneralGenerator == "_generate_general_content"

\* content_generators.get(content_type, self._generate_general_content)
GeneratorFor(content_type) ==
    LET hits == {k \in 1..Len(content_generators) :
                    content_generators[k].key = content_type}
    IN  IF hits = {} THEN GeneralGenerator
        ELSE content_generators[SetMin(hits)].method

\* _create_instagram_posts: its first statement reads
\* self._get_regional_greeting
CreateInstagramPosts ==
    IF HasAttr("_get_regional_greeting") THEN [posts |-> "instagram"]
    ELSE Raised("AttributeError")

\* _generate_social_media_campaign(brief, target_audience, regional_focus):
\* the business info is extracted, then the campaign record is built key by
\* key, the Instagram posts first
GenerateSocialMediaCampaignOf(brief) ==
    LET business_info == ExtractBusinessInfoOf(brief)
        instagram_posts == CreateInstagramPosts
    IN  IF HasRaised(instagram_posts) THEN instagram_posts
        ELSE [business_info |-> business_info,
              instagram_posts |-> instagram_posts]

\* generator(brief, target_audience, regional_focus); of the seven generators
\* only _generate_social_media_campaign is defined
CallGenerator(method, brief) ==
    IF HasAttr(method) /\ method = "_generate_social_media_campaign"
    THEN GenerateSocialMediaCampaignOf(brief)
    ELSE Raised("AttributeError")

\* generate_content_by_type: the dict literal reads all six bound methods, the
\* default of get is read as well, and only then is the generator called
GenerateContentByTypeOf(content_type, brief) ==
    IF \E k \in 1..Len(content_generators) : ~HasAttr(content_generators[k].method)
    THEN Raised("AttributeError")
    ELSE IF ~HasAttr(GeneralGenerator) THEN Raised("AttributeError")
    ELSE CallGenerator(GeneratorFor(content_type), brief)

MaxGenerateBlocks == 1

RequestedTypes ==
    {content_generators[k].key : k \in 1..Len(content_generators)}
    \cup {"press_release", ""}

GenerateArgs ==
    [content_type : RequestedTypes,
     regional_focus : {<<>>, <<"Mumbai">>}]

GenerateContentByType ==
    /\ op = "none"
    /\ op' = "generate"
    /\ result' = GenerateContentByTypeOf(args.content_type, content)
    /\ UNCHANGED <<content, args, passes, state>>

GenerateSocialMediaCampaign ==
    /\ op = "none"
    /\ op' = "campaign"
    /\ result' = GenerateSocialMediaCampaignOf(content)
    /\ UNCHANGED <<content, args, passes, state>>

InitGenerate ==
    /\ content \in Texts(BriefBlocks, MaxGenerateBlocks)
    /\ args \in GenerateArgs
    /\ op = "none"
    /\ result = NoResult
    /\ passes = 0
    /\ state = NoState

NextGenerate == GenerateContentByType \/ GenerateSocialMediaCampaign

SpecGenerate == InitGenerate /\ [][NextGenerate]_vars

\* C20: generate_content_by_type completes without error for every
\* content_type and returns the result of the generator registered for it
\* (social_media_campaign, blog_article, email_campaign, website_content,
\* product_description, whatsapp_business), or of the general-content
\* generator for any other content_type.
C20_DispatchCompletes ==
    op = "generate" =>
        /\ ~HasRaised(result)
        /\ result = CallGenerator(GeneratorFor(args.content_type), content)

(***************************************************************************)
(* ContentCreationTeam._extract_industry_from_brief (src/src/content_team.py)*)
(***************************************************************************)

\* the industry_keywords dict, in insertion order
industry_keywords ==
    <<[industry |-> "technology",
       keywords |-> <<<<"t","e","c","h">>, <<"s","o","f","t","w","a","r","e">>, <<"d","i","g","i","t","a","l">>, <<"a","p","p">>, <<"p","l","a","t","f","o","r","m">>, <<"a","i">>, <<"m","l">>>>],
      [industry |-> "healthcare",
       keywords |-> <<<<"h","e","a","l","t","h">>, <<"m","e","d","i","c","a","l">>, <<"d","o","c","t","o","r">>, <<"h","o","s","p","i","t","a","l">>, <<"m","e","d","i","c","i","n","e">>, <<"w","e","l","l","n","e","s","s">>>>],
      [industry |-> "education",
       keywords |-> <<<<"e","d","u","c","a","t","i","o","n">>, <<"l","e","a","r","n","i","n","g">>, <<"s","c","h","o","o","l">>, <<"c","o","u","r","s","e">>, <<"t","r","a","i","n","i","n","g">>, <<"s","k","i","l","l">>>>],
      [industry |-> "finance",
       keywords |-> <<<<"f","i","n","a","n","c","e">>, <<"b","a","n","k","i","n","g">>, <<"i","n","v","e","s","t","m","e","n","t">>, <<"m","o","n","e","y">>, <<"l","o","a","n">>, <<"i","n","s","u","r","a","n","c","e">>>>],
      [industry |-> "food",
       keywords |-> <<<<"f","o","o","d">>, <<"r","e","s","t","a","u","r","a","n","t">>, <<"c","u","i","s","i","n","e">>, <<"r","e","c","i","p","e">>, <<"c","o","o","k","i","n","g">>, <<"m","e","a","l">>>>],
      [industry |-> "retail",
       keywords |-> <<<<"r","e","t","a","i","l">>, <<"s","h","o","p","p","i","n","g">>, <<"s","t","o","r","e">>, <<"p","r","o","d","u","c","t">>, <<"s","a","l","e">>, <<"c","u","s","t","o","m","e","r">>>>]>>

\* the least position of brief_lower where a keyword of entry k starts, 0 when
\* none occurs
FirstKeywordAt(brief_lower, k) ==
    LET at == {i \in 1..Len(brief_lower) :
                  \E j \in 1..Len(industry_keywords[k].keywords) :
                      MatchAt(brief_lower, industry_keywords[k].keywords[j], i)}
    IN  IF at = {} THEN 0 ELSE SetMin(at)

\* a variant that returns the industry whose keyword occurs leftmost
ExtractIndustryLeftmost(brief) ==
    Only({LET hit == {k \in 1..Len(industry_keywords) : FirstKeywordAt(low, k) # 0}
          IN  IF hit = {} THEN Returned("general")
              ELSE Returned(industry_keywords[
                      CHOOSE k \in hit :
                          \A j \in hit :
                              \/ FirstKeywordAt(low, k) < FirstKeywordAt(low, j)
                              \/ (FirstKeywordAt(low, k) = FirstKeywordAt(low, j)
                                    /\ k <= j)].industry)
          : low \in {Lower(brief)}})

\* the for loop over industry_keywords.items() from entry k on
RECURSIVE IndustryLoop(_, _)
IndustryLoop(brief_lower, k) ==
    IF k > Len(industry_keywords) THEN Returned("general")
    ELSE IF AnyIn(brief_lower, industry_keywords[k].keywords)
    THEN Returned(industry_keywords[k].industry)
    ELSE IndustryLoop(brief_lower, k + 1)

ExtractIndustryFromBriefOf(brief) ==
    Only({IndustryLoop(brief_lower, 1) : brief_lower \in {Lower(brief)}})

MaxIndustryBlocks == 2

IndustryBlocks ==
    <<<<"M","e","a","l"," ","p","l","a","n","s","."," ">>,
      <<"N","e","w"," ","a","p","p","."," ">>,
      <<"R","E","T","A","I","L"," ","s","t","o","r","e","."," ">>,
      <<"L","o","a","n"," ","h","e","l","p","."," ">>,
      <<"T","e","a"," ","a","n","d"," ","s","a","m","o","s","a","."," ">>,
      <<"D","o","c","t","o","r"," ","v","i","s","i","t","."," ">>,
      <<"C","h","a","i"," ","t","i","m","e","."," ">>,
      <<"F","o","o","d"," ","f","o","o","d"," ","m","e","a","l","."," ">>>>

ExtractIndustryFromBrief ==
    /\ op = "none"
    /\ op' = "industry"
    /\ result' = ExtractIndustryFromBriefOf(content)
    /\ UNCHANGED <<content, args, passes, state>>

InitIndustry ==
    /\ content \in Texts(IndustryBlocks, MaxIndustryBlocks)
    /\ args = NoArgs
    /\ op = "none"
    /\ result = NoResult
    /\ passes = 0
    /\ state = NoState

NextIndustry == ExtractIndustryFromBrief

SpecIndustry == InitIndustry /\ [][NextIndustry]_vars

\* the entries of industry_keywords that have a keyword somewhere in the
\* lowercased brief
IndustriesNamed(brief) ==
    {k \in 1..Len(industry_keywords) : FirstKeywordAt(Lower(brief), k) # 0}

\* C21: _extract_industry_from_brief returns the first industry in table order
\* (technology, healthcare, education, finance, food, retail) that has a
\* keyword occurring as a substring of the lowercased brief, and "general"
\* when no keyword occurs, wherever and however often the keywords occur.
C21_EarliestListedIndustry ==
    op = "industry" =>
        LET named == IndustriesNamed(content)
        IN  /\ named = {} => result = Returned("general")
            /\ \A k \in named :
                  (\A j \in named : k <= j)
                      => result = Returned(industry_keywords[k].industry)

\* a brief whose first and most frequent keywords belong to a later-listed
\* industry: food keywords open the brief and recur, a technology keyword
\* follows them
C21_Witness ==
    /\ op = "industry"
    /\ IndustriesNamed(content) = {1, 5}
    /\ FirstKeywordAt(Lower(content), 5) < FirstKeywordAt(Lower(content), 1)
    /\ Count(Lower(content), <<"f","o","o","d">>) = 2
    /\ result = Returned("technology")

(***************************************************************************)
(* ProjectManagerAgent.validate_team_output                                *)
(* (src/src/agents/project_manager_agent.py)                               *)
(***************************************************************************)

\* _get_quality_standards, in insertion order
quality_standards ==
    <<[standard |-> "cultural_appropriateness", minimum_score |-> 95,
       description |-> "Content respects Indian cultural values and sensitivities"],
      [standard |-> "readability", minimum_score |-> 85,
       description |-> "Content is accessible to diverse Indian audiences"],
      [standard |-> "local_relevance", minimum_score |-> 80,
       description |-> "Content includes Indian market context and examples"],
      [standard |-> "mobile_optimization", minimum_score |-> 85,
       description |-> "Content optimized for mobile consumption"],
      [standard |-> "call_to_action", minimum_score |-> 75,
       description |-> "Clear and appropriate CTAs for Indian market"]>>

\* the keys of quality_results whose value is a bool
BoolValued == {"cultural_appropriateness", "indian_references", "call_to_action"}

\* quality_results[standard] as a float: a bool becomes 100.0 or 0.0
StandardScore(quality_results, standard) ==
    IF standard \in BoolValued
    THEN (IF quality_results[standard] THEN Whole(100) ELSE Whole(0))
    ELSE quality_results[standard]

\* f"{score:.1f}" as a number of tenths, a tie going to the even digit
Tenths(x) ==
    LET q == (10 * x.n) \div x.d
        r == (10 * x.n) % x.d
    IN  IF 2 * r < x.d THEN q
        ELSE IF 2 * r > x.d THEN q + 1
        ELSE IF q % 2 = 0 THEN q ELSE q + 1

\* the loop over quality_standards from entry k on; a standard that is no key
\* of quality_results is passed over
RECURSIVE StandardsLoop(_, _, _)
StandardsLoop(validation, quality_results, k) ==
    IF k > Len(quality_standards) THEN validation
    ELSE Only({
        IF /\ quality_standards[k].standard \in DOMAIN quality_results
           /\ FracLt(StandardScore(quality_results, quality_standards[k].standard),
                     Whole(quality_standards[k].minimum_score))
        THEN StandardsLoop(
                [v EXCEPT
                    !.validation_passed = FALSE,
                    !.issues = Append(@,
                        <<quality_standards[k].standard,
                          Tenths(StandardScore(quality_results,
                                               quality_standards[k].standard)),
                          quality_standards[k].minimum_score>>),
                    !.suggestions = Append(@,
                        <<quality_standards[k].standard,
                          quality_standards[k].description>>)],
                quality_results, k + 1)
        ELSE StandardsLoop(v, quality_results, k + 1)
        : v \in {validation}})

\* sum(scores) / len(scores) over the six values of quality_results, the bools
\* counting 1 and 0
TeamScore(q) ==
    FracTimes(
        FracAdd(FracAdd(FracAdd(q.readability, AsNumber(q.cultural_appropriateness)),
                        FracAdd(AsNumber(q.indian_references), q.mobile_optimization)),
                FracAdd(AsNumber(q.call_to_action), q.overall_score)),
        1, 6)

ValidateTeamOutputOf(c, agent_name) ==
    Only({[StandardsLoop([agent |-> agent_name,
                          content_length |-> Len(c),
                          validation_passed |-> TRUE,
                          issues |-> <<>>,
                          suggestions |-> <<>>,
                          score |-> Whole(0)],
                         quality_results, 1)
              EXCEPT !.score = TeamScore(quality_results)]
          : quality_results \in {ValidateContentQualityOf(c)}})

MaxTeamBlocks == 2

TeamBlocks ==
    ValidateBlocks \o <<<<"C","a","l","l"," ","n","o","w","."," ">>>>

AgentNames == {"ContentWriter", "ContentEditor", "SEOSpecialist"}

ValidateTeamOutput ==
    /\ op = "none"
    /\ op' = "team_output"
    /\ result' = ValidateTeamOutputOf(content, args.agent_name)
    /\ UNCHANGED <<content, args, passes, state>>

InitTeamOutput ==
    /\ content \in Texts(TeamBlocks, MaxTeamBlocks)
    /\ args \in [agent_name : AgentNames]
    /\ op = "none"
    /\ result = NoResult
    /\ passes = 0
    /\ state = NoState

NextTeamOutput == ValidateTeamOutput

SpecTeamOutput == InitTeamOutput /\ [][NextTeamOutput]_vars

\* C22: validate_team_output sets validation_passed to True only if the
\* content meets the minimum_score of every standard (cultural_appropriateness
\* 95, readability 85, local_relevance 80, mobile_optimization 85,
\* call_to_action 75); content with no Indian-context term fails validation
\* on local_relevance.
C22_PassedMeansEveryStandardMet ==
    (op = "team_output" /\ result.validation_passed) =>
        /\ CheckCulturalSensitivity(content)
        /\ FracLe(Whole(85), CheckReadability(content))
        /\ CheckIndianContext(content)
        /\ FracLe(Whole(85), CheckMobileFriendliness(content))
        /\ CheckCtaPresence(content)

(***************************************************************************)
(* ProjectManagerAgent.get_next_action_recommendation                      *)
(***************************************************************************)

\* the "stage" of each entry of _get_workflow_stages, in order
workflow_stages ==
    <<"brief_analysis", "content_creation", "content_editing",
      "seo_optimization", "brand_alignment", "final_review">>

\* the stage_flow dict
stage_flow ==
    [brief_analysis |-> "content_creation",
     content_creation |-> "content_editing",
     content_editing |-> "seo_optimization",
     seo_optimization |-> "brand_alignment",
     brand_alignment |-> "final_review",
     final_review |-> "project_completion"]

AllStagesCompleted == <<"ALL STAGES COMPLETED - READY FOR FINAL APPROVAL">>

\* dict.get(key, default) on a record
Get(dict, key, default) == IF key \in DOMAIN dict THEN dict[key] ELSE default

\* the returned text, piece by piece; the issue and suggestion lines of the
\* revision text are kept as the lists they are joined from
GetNextActionRecommendationOf(current_stage, validation_results) ==
    IF ~Get(validation_results, "validation_passed", FALSE)
    THEN <<"NEXT ACTION REQUIRED", "Current Stage: ", current_stage,
           "Status: REVISION NEEDED",
           "Issues to Address:", Get(validation_results, "issues", <<>>),
           "Suggestions:", Get(validation_results, "suggestions", <<>>),
           "Please revise the content addressing these issues before proceeding.">>
    ELSE LET next_stage == Get(stage_flow, current_stage, "project_completion")
         IN  IF next_stage = "project_completion" THEN AllStagesCompleted
             ELSE <<"Stage validated. Proceeding to: ", next_stage>>

MaxIssues == 1

IssuePool == <<"readability: Score 50.0 below minimum 85",
               "call_to_action: Score 0.0 below minimum 75">>

SuggestionPool == <<"Improve readability: Content is accessible to diverse Indian audiences",
                    "Improve call_to_action: Clear and appropriate CTAs for Indian market">>

\* the lists of at most MaxIssues entries of a pool
Lists(pool) ==
    UNION {{[i \in 1..n |-> pool[f[i]]] : f \in [1..n -> 1..Len(pool)]} :
              n \in 0..MaxIssues}

\* validation records: complete ones, ones without their lists, and ones
\* without validation_passed
ValidationResults ==
    {[agent |-> a, validation_passed |-> p, issues |-> i, suggestions |-> s] :
        a \in {"ContentWriter"}, p \in BOOLEAN,
        i \in Lists(IssuePool), s \in Lists(SuggestionPool)}
    \cup {[agent |-> a, validation_passed |-> p] :
            a \in {"ContentWriter"}, p \in BOOLEAN}
    \cup {[agent |-> a] : a \in {"ContentWriter"}}

CurrentStages ==
    {workflow_stages[k] : k \in 1..Len(workflow_stages)}
    \cup {"project_completion", "publishing", ""}

GetNextActionRecommendation ==
    /\ op = "none"
    /\ op' = "next_action"
    /\ result' = GetNextActionRecommendationOf(args.current_stage,
                                               args.validation_results)
    /\ UNCHANGED <<content, args, passes, state>>

InitNextAction ==
    /\ content = <<>>
    /\ args \in [current_stage : CurrentStages,
                 validation_results : ValidationResults]
    /\ op = "none"
    /\ result = NoResult
    /\ passes = 0
    /\ state = NoState

NextNextAction == GetNextActionRecommendation

SpecNextAction == InitNextAction /\ [][NextNextAction]_vars

\* the validation record says the validation passed
ValidationPassed(validation_results) ==
    /\ "validation_passed" \in DOMAIN validation_results
    /\ validation_results.validation_passed

\* C23: get_next_action_recommendation never advances on a failed or missing
\* validation_passed; on a passed validation of one of the first five stages it
\* names exactly the next stage in workflow_stages order; and it reports
\* "ALL STAGES COMPLETED - READY FOR FINAL APPROVAL" only when current_stage is
\* final_review and the validation passed.
C23_AdvancesInWorkflowOrder ==
    op = "next_action" =>
        /\ ~ValidationPassed(args.validation_results)
              => result[1] = "NEXT ACTION REQUIRED"
        /\ \A k \in 1..(Len(workflow_stages) - 1) :
              (ValidationPassed(args.validation_results)
                  /\ args.current_stage = workflow_stages[k])
                  => result = <<"Stage validated. Proceeding to: ",
                                workflow_stages[k + 1]>>
        /\ result = AllStagesCompleted
              => (args.current_stage = "final_review"
                    /\ ValidationPassed(args.validation_results))

(***************************************************************************)
(* ContentCreationTeam._extract_final_campaign_content                     *)
(* (src/src/content_team.py)                                               *)
(***************************************************************************)

content_agents == {"ContentWriter", "ContentEditor", "SEOSpecialist"}

PreviewLength == 100

\* one entry of agent_contributions[agent_name]
Contribution(text) ==
    [content |-> text, length |-> Len(text), word_count |-> WordCount(text)]

\* the loop that fills agent_contributions, from message i on; len(content)
\* raises TypeError for the content None, after the agent's list was created
RECURSIVE ContributionsLoop(_, _, _)
ContributionsLoop(contributions, messages, i) ==
    IF i > Len(messages) THEN [value |-> contributions, raised |-> FALSE]
    ELSE Only({
        IF c.type # "str"
        THEN [value |-> known, raised |-> TRUE]
        ELSE ContributionsLoop(
                [known EXCEPT ![Get(messages[i], "name", "Unknown")] =
                                    Append(@, Contribution(c.value))],
                messages, i + 1)
        : c \in {GetContent(messages[i])},
          known \in {IF Get(messages[i], "name", "Unknown") \in DOMAIN contributions
                     THEN contributions
                     ELSE contributions
                              @@ (Get(messages[i], "name", "Unknown") :> <<>>)}})

\* the loop over reversed(messages) from message i down: a content agent's
\* message replaces the best one only when strictly longer
RECURSIVE WriterLoop(_, _, _)
WriterLoop(best, messages, i) ==
    IF i < 1 THEN best
    ELSE Only({
        WriterLoop(
            IF /\ Get(messages[i], "name", "") \in content_agents
               /\ Len(GetContent(messages[i]).value) > Len(b.content)
            THEN [content |-> GetContent(messages[i]).value,
                  agent |-> Get(messages[i], "name", "")]
            ELSE b,
            messages, i - 1)
        : b \in {best}})

\* the loop over messages from message i on, for the longest message overall
RECURSIVE OverallLoop(_, _, _)
OverallLoop(best, messages, i) ==
    IF i > Len(messages) THEN best
    ELSE Only({
        OverallLoop(
            IF Len(GetContent(messages[i]).value) > Len(b.content)
            THEN [content |-> GetContent(messages[i]).value,
                  agent |-> Get(messages[i], "name", "Unknown")]
            ELSE b,
            messages, i + 1)
        : b \in {best}})

\* best_content and best_agent after both loops
BestContent(messages) ==
    Only({IF b.content = <<>>
          THEN OverallLoop(b, messages, 1)
          ELSE b
          : b \in {WriterLoop([content |-> <<>>, agent |-> ""],
                              messages, Len(messages))}})

Ellipsis == <<".", ".", ".">>

\* content_evolution: the messages of more than 100 characters, in order
RECURSIVE ContentEvolution(_, _)
ContentEvolution(messages, i) ==
    IF i > Len(messages) THEN <<>>
    ELSE (IF Len(GetContent(messages[i]).value) > PreviewLength
          THEN <<[agent |-> Get(messages[i], "name", "Unknown"),
                  length |-> Len(GetContent(messages[i]).value),
                  preview |-> SubSeq(GetContent(messages[i]).value, 1, PreviewLength)
                                  \o Ellipsis]>>
          ELSE <<>>)
         \o ContentEvolution(messages, i + 1)

NoLenError == "object of type 'NoneType' has no len()"

\* the record as initialised; original_brief is kept with its type, as it can
\* be None
EmptyFinalContent ==
    [original_brief |-> Str(<<>>),
     final_campaign |-> <<>>,
     last_message |-> <<>>,
     generated_by |-> "Unknown",
     agent_contributions |-> <<>>,
     content_evolution |-> <<>>]

ExtractFinalCampaignContentOf(messages) ==
    IF messages = <<>> THEN EmptyFinalContent
    ELSE Only({
        IF contributions.raised
        THEN [k \in DOMAIN EmptyFinalContent \cup {"extraction_error"} |->
                IF k = "extraction_error" THEN NoLenError
                ELSE IF k = "original_brief" THEN GetContent(messages[1])
                ELSE IF k = "agent_contributions" THEN contributions.value
                ELSE EmptyFinalContent[k]]
        ELSE Only({
            [original_brief |-> GetContent(messages[1]),
             final_campaign |-> best.content,
             last_message |-> GetContent(messages[Len(messages)]).value,
             generated_by |->
                IF best.agent # "" THEN best.agent
                ELSE Get(messages[Len(messages)], "name", "Unknown"),
             agent_contributions |-> contributions.value,
             content_evolution |-> ContentEvolution(messages, 1)]
            : best \in {BestContent(messages)}})
        : contributions \in {ContributionsLoop(<<>>, messages, 1)}})

MaxMessages == 2

MessagePool ==
    <<[name |-> "ContentWriter", content |-> Str(<<"d","r","a","f","t">>)],
      [name |-> "ContentEditor", content |-> Str(<<"e","d","i","t","s">>)],
      [name |-> "ProjectManager", content |-> Str(Rep(<<"x">>, PreviewLength + 1))],
      [name |-> "BrandStrategist", content |-> Str(<<"b","r","a","n","d">>)],
      [name |-> "", content |-> Str(<<"a"," ","l","o","n","g","e","r"," ","t","e","x","t">>)],
      [name |-> "ContentWriter", content |-> Str(<<>>)],
      [content |-> Str(<<"u","n","n","a","m","e","d">>)],
      [name |-> "SEOSpecialist", content |-> NoneValue],
      [name |-> "user_proxy"]>>

MessageLists ==
    UNION {{[i \in 1..n |-> MessagePool[f[i]]] : f \in [1..n -> 1..Len(MessagePool)]} :
              n \in 0..MaxMessages}

ExtractFinalCampaignContent ==
    /\ op = "none"
    /\ op' = "final_campaign"
    /\ result' = ExtractFinalCampaignContentOf(args.messages)
    /\ UNCHANGED <<content, args, passes, state>>

InitFinalCampaign ==
    /\ content = <<>>
    /\ args \in [messages : MessageLists]
    /\ op = "none"
    /\ result = NoResult
    /\ passes = 0
    /\ state = NoState

NextFinalCampaign == ExtractFinalCampaignContent

SpecFinalCampaign == InitFinalCampaign /\ [][NextFinalCampaign]_vars

\* the text of message i, empty when it has none
TextOf(messages, i) ==
    IF GetContent(messages[i]).type = "str" THEN GetContent(messages[i]).value
    ELSE <<>>

\* the messages of the content agents that have a non-empty content
WriterMessages(messages) ==
    {i \in 1..Len(messages) :
        /\ Get(messages[i], "name", "") \in content_agents
        /\ TextOf(messages, i) # <<>>}

\* the message the claim takes final_campaign from: the longest of the
\* content agents' messages, the latest on equal length, or else the longest
\* message overall, the earliest on equal length
ClaimedSource(messages) ==
    IF WriterMessages(messages) # {}
    THEN CHOOSE i \in WriterMessages(messages) :
            \A j \in WriterMessages(messages) :
                \/ Len(TextOf(messages, j)) < Len(TextOf(messages, i))
                \/ (Len(TextOf(messages, j)) = Len(TextOf(messages, i)) /\ j <= i)
    ELSE CHOOSE i \in 1..Len(messages) :
            \A j \in 1..Len(messages) :
                \/ Len(TextOf(messages, j)) < Len(TextOf(messages, i))
                \/ (Len(TextOf(messages, j)) = Len(TextOf(messages, i)) /\ i <= j)

\* C24: for a non-empty message list final_campaign is the longest content
\* among the messages named ContentWriter, ContentEditor or SEOSpecialist when
\* one of them has non-empty content (the latest on equal length), and the
\* longest message overall otherwise (the earliest on equal length); when
\* final_campaign is non-empty, generated_by is the name of the message it was
\* taken from.
C24_FinalCampaignIsLongest ==
    (op = "final_campaign" /\ args.messages # <<>>) =>
        LET source == ClaimedSource(args.messages)
        IN  /\ result.final_campaign = TextOf(args.messages, source)
            /\ result.final_campaign # <<>>
                  => result.generated_by = Get(args.messages[source], "name", "Unknown")

(***************************************************************************)
(* ContentCreationTeam.create_content and _extract_and_save_results        *)
(* (src/src/content_team.py)                                               *)
(***************************************************************************)

agents_used ==
    <<"ProjectManager", "ContentWriter", "ContentEditor", "SEOSpecialist",
      "BrandStrategist">>

\* the files _extract_and_save_results writes, in the order it writes them:
\* the campaign and the contributions only when final_content has them
FilePlan(final_content) ==
    <<"conversation_log">>
    \o (IF final_content.final_campaign # <<>> THEN <<"final_campaign">> ELSE <<>>)
    \o (IF DOMAIN final_content.agent_contributions # {}
        THEN <<"agent_contributions">> ELSE <<>>)
    \o <<"project_metadata">>

\* f.write(content) raises TypeError for a message whose content is None
LogWriteFails(messages) ==
    \E i \in 1..Len(messages) : GetContent(messages[i]).type # "str"

WriteTypeError == "write() argument must be str, not None"

DiskError == "[Errno 28] No space left on device"

\* conversation_stats: filled only for a non-empty message list
ConversationStats(messages) ==
    IF messages = <<>> THEN <<>>
    ELSE LET names == {Get(messages[i], "name", "Unknown") : i \in 1..Len(messages)}
         IN  [total_messages |-> Len(messages),
              agents_participated |-> Cardinality(names),
              message_breakdown |->
                [n \in names |->
                    Cardinality({i \in 1..Len(messages) :
                                    Get(messages[i], "name", "Unknown") = n})]]

\* a variant that lists a file before its write has finished
OutputFilesEager(plan, done) ==
    SubSeq(plan, 1, IF done < Len(plan) THEN done + 1 ELSE done)

\* results["output_files"] when the first done files of the plan were written:
\* a file is appended after its with block
OutputFiles(plan, done) == SubSeq(plan, 1, done)

\* _extract_and_save_results(brief, content_type, groupchat, None), the write
\* of the file named failing (if any) meeting a full disk: the results record
\* and the files left on disk, a file being complete when its with block ended
ExtractAndSaveResultsOf(brief, content_type, groupchat, failing) ==
    Only({
        LET plan == FilePlan(final_content)
            bad == {k \in 1..Len(plan) :
                        \/ plan[k] = failing
                        \/ (plan[k] = "conversation_log"
                                /\ LogWriteFails(groupchat.messages))}
            done == IF bad = {} THEN Len(plan) ELSE SetMin(bad) - 1
            results == [brief |-> brief,
                        content_type |-> content_type,
                        timestamp |-> "timestamp",
                        llm_provider |-> "llm_provider",
                        agents_used |-> agents_used,
                        status |-> "completed",
                        output_files |-> OutputFiles(plan, done),
                        conversation_stats |-> ConversationStats(groupchat.messages),
                        final_content |-> final_content]
        IN  [results |->
                IF bad = {} THEN results
                ELSE [k \in DOMAIN results \cup {"save_error"} |->
                        IF k # "save_error" THEN results[k]
                        ELSE IF plan[done + 1] = failing THEN DiskError
                        ELSE WriteTypeError],
             disk |->
                [k \in 1..done |-> [file |-> plan[k], complete |-> TRUE]]
                \o (IF bad # {} /\ plan[done + 1] # failing
                    THEN <<[file |-> plan[done + 1], complete |-> FALSE]>>
                    ELSE <<>>)]
        : final_content \in {ExtractFinalCampaignContentOf(groupchat.messages)}})

\* the errors a step of create_content can meet, as str(e)
ErrorTexts == {"'positioning_strategy'", "Connection error."}

FileKinds ==
    {"conversation_log", "final_campaign", "agent_contributions", "project_metadata"}

\* a handler that raises ValueError without the text of e
RaiseValueErrorBare(e, locals) ==
    /\ result' = [raised |-> "ValueError", text |-> <<"error">>]
    /\ state' = [locals EXCEPT !.pc = "raised", !.e = e]

\* except Exception as e: raise ValueError("error: " + str(e)), the local
\* variables being locals when the step raised
RaiseValueError(e, locals) ==
    /\ result' = [raised |-> "ValueError", text |-> <<"error: ", e>>]
    /\ state' = [locals EXCEPT !.pc = "raised", !.e = e]

\* Step 1: self._get_brand_strategy_analysis(content_brief, content_type)
\* returns and the call moves on, or raises and the handler raises ValueError
GetBrandStrategyAnalysis ==
    /\ state.pc = "brand_analysis"
    /\ op' = "brand_analysis"
    /\ \/ /\ state' = [state EXCEPT !.pc = "enhance_brief"]
          /\ UNCHANGED result
       \/ \E e \in ErrorTexts : RaiseValueError(e, state)
    /\ UNCHANGED <<content, args, passes>>

\* Step 2: self._enhance_brief_with_context(...) sets enhanced_brief
EnhanceBriefWithContext ==
    /\ state.pc = "enhance_brief"
    /\ op' = "enhance_brief"
    /\ \/ /\ state' = [state EXCEPT
                        !.pc = "groupchat",
                        !.enhanced_brief =
                            <<"ORIGINAL BRIEF: ", content,
                              "CONTENT TYPE: ", args.content_type>>]
          /\ UNCHANGED result
       \/ \E e \in ErrorTexts : RaiseValueError(e, state)
    /\ UNCHANGED <<content, args, passes>>

\* Step 3: autogen.GroupChat(agents=[...], messages=[], ...) sets groupchat
CreateGroupChat ==
    /\ state.pc = "groupchat"
    /\ op' = "groupchat"
    /\ \/ /\ state' = [state EXCEPT !.pc = "manager",
                                    !.groupchat = [messages |-> <<>>]]
          /\ UNCHANGED result
       \/ \E e \in ErrorTexts : RaiseValueError(e, state)
    /\ UNCHANGED <<content, args, passes>>

\* Step 4: autogen.GroupChatManager(groupchat=groupchat, llm_config=...)
CreateManager ==
    /\ state.pc = "manager"
    /\ op' = "manager"
    /\ \/ /\ state' = [state EXCEPT !.pc = "initiate_chat"]
          /\ UNCHANGED result
       \/ \E e \in ErrorTexts : RaiseValueError(e, state)
    /\ UNCHANGED <<content, args, passes>>

\* Step 5: initiate_chat runs the conversation, which leaves its messages in
\* groupchat.messages whether it returns or raises
InitiateChat ==
    /\ state.pc = "initiate_chat"
    /\ op' = "initiate_chat"
    /\ \E messages \in MessageLists :
          \/ /\ state' = [state EXCEPT !.pc = "extract",
                                       !.groupchat = [messages |-> messages]]
             /\ UNCHANGED result
          \/ \E e \in ErrorTexts :
                RaiseValueError(e, [state EXCEPT
                                        !.groupchat = [messages |-> messages]])
    /\ UNCHANGED <<content, args, passes>>

\* Step 6: results = self._extract_and_save_results(enhanced_brief,
\* content_type, groupchat, None); return results
ExtractAndSaveResults ==
    /\ state.pc = "extract"
    /\ op' = "extract"
    /\ \E failing \in FileKinds \cup {"none"} :
          \E saved \in {ExtractAndSaveResultsOf(state.enhanced_brief,
                                                args.content_type,
                                                state.groupchat, failing)} :
              /\ result' = saved.results
              /\ state' = [state EXCEPT !.pc = "returned",
                                        !.extract_calls = @ + 1,
                                        !.disk = @ \o saved.disk]
    /\ UNCHANGED <<content, args, passes>>

InitCreate ==
    /\ content \in {<<>>, IndustryBlocks[1]}
    /\ args \in [content_type : {"general", "blog"}]
    /\ op = "none"
    /\ result = NoResult
    /\ passes = 0
    /\ state = [pc |-> "brand_analysis",
                enhanced_brief |-> <<>>,
                groupchat |-> NoneValue,
                e |-> "",
                extract_calls |-> 0,
                disk |-> <<>>]

NextCreate ==
    \/ GetBrandStrategyAnalysis
    \/ EnhanceBriefWithContext
    \/ CreateGroupChat
    \/ CreateManager
    \/ InitiateChat
    \/ ExtractAndSaveResults

SpecCreate == InitCreate /\ [][NextCreate]_vars

\* C25: in create_content, if brand analysis, brief enhancement, group-chat
\* construction or the chat itself raises, a ValueError carrying the original
\* error text is raised to the caller and _extract_and_save_results is never
\* invoked (no result record, no output file); results are extracted and saved
\* only after initiate_chat has returned normally.
C25_FailureSkipsExtraction ==
    /\ [](state.pc = "raised" =>
            /\ result = [raised |-> "ValueError", text |-> <<"error: ", state.e>>]
            /\ state.extract_calls = 0
            /\ state.disk = <<>>)
    /\ [][state.pc = "raised" => state'.pc = "raised"]_vars
    /\ [][(state'.extract_calls # state.extract_calls \/ state'.disk # state.disk)
            => (op = "initiate_chat" /\ state.pc = "extract" /\ result = NoResult)]_vars

\* the chat produced messages and then raised
C25_Witness ==
    /\ state.pc = "raised"
    /\ op = "initiate_chat"
    /\ state.groupchat # NoneValue
    /\ state.groupchat.messages # <<>>
    /\ state.e = "Connection error."
    /\ state.extract_calls = 0

\* the files of the disk whose write finished, in the order they were written
RECURSIVE CompleteFiles(_)
CompleteFiles(disk) ==
    IF disk = <<>> THEN <<>>
    ELSE (IF Head(disk).complete THEN <<Head(disk).file>> ELSE <<>>)
         \o CompleteFiles(Tail(disk))

\* C26: _extract_and_save_results never raises: an exception while analysing
\* messages or writing files is recorded under results["save_error"], and the
\* results record is still returned with status "completed" and with
\* output_files listing only the files whose write finished before the failure.
C26_SaveErrorsAreRecorded ==
    op = "extract" =>
        /\ state.pc = "returned"
        /\ "raised" \notin DOMAIN result
        /\ result.status = "completed"
        /\ result.output_files = CompleteFiles(state.disk)
        /\ ("save_error" \in DOMAIN result)
              <=> (result.output_files # FilePlan(result.final_content))

\* the campaign file met the full disk after the conversation log was written
C26_Witness ==
    /\ op = "extract"
    /\ "save_error" \in DOMAIN result
    /\ result.save_error = DiskError
    /\ result.output_files = <<"conversation_log">>
    /\ result.final_content.final_campaign # <<>>

(***************************************************************************)
(* BaseAgent.update_performance_metrics                                    *)
(*                                                                         *)
(* state holds the three metric fields of one agent; args is the list of   *)
(* the calls made so far, each with its response_time and success.         *)
(***************************************************************************)

\* conversation_count, success_rate and average_response_time as __init__
\* leaves them
InitialMetrics ==
    [conversation_count |-> 0,
     success_rate |-> Whole(0),
     average_response_time |-> Whole(0)]

\* 1.0 if success else 0.0
SuccessValue(success) == IF success THEN Whole(1) ELSE Whole(0)

\* the metric fields after one call that weighs the old values by the new count
UpdatePerformanceMetricsStale(self, response_time, success) ==
    LET conversation_count == self.conversation_count + 1
    IN  [conversation_count |-> conversation_count,
         success_rate |->
            IF conversation_count = 1 THEN SuccessValue(success)
            ELSE FracTimes(FracAdd(FracTimes(self.success_rate,
                                             conversation_count, 1),
                                   SuccessValue(success)),
                           1, conversation_count),
         average_response_time |->
            IF conversation_count = 1 THEN response_time
            ELSE FracTimes(FracAdd(FracTimes(self.average_response_time,
                                             conversation_count, 1),
                                   response_time),
                           1, conversation_count)]

\* the metric fields after update_performance_metrics(response_time, success)
UpdatePerformanceMetricsOf(self, response_time, success) ==
    LET conversation_count == self.conversation_count + 1
    IN  [conversation_count |-> conversation_count,
         success_rate |->
            IF conversation_count = 1 THEN SuccessValue(success)
            ELSE FracTimes(FracAdd(FracTimes(self.success_rate,
                                             conversation_count - 1, 1),
                                   SuccessValue(success)),
                           1, conversation_count),
         average_response_time |->
            IF conversation_count = 1 THEN response_time
            ELSE FracTimes(FracAdd(FracTimes(self.average_response_time,
                                             conversation_count - 1, 1),
                                   response_time),
                           1, conversation_count)]

MaxCalls == 4

\* response times in seconds: none, half a second, three seconds
ResponseTimes == {Whole(0), Frac(1, 2), Whole(3)}

UpdatePerformanceMetrics ==
    /\ Len(args) < MaxCalls
    /\ \E response_time \in ResponseTimes, success \in BOOLEAN :
          /\ state' = UpdatePerformanceMetricsOf(state, response_time, success)
          /\ args' = Append(args, [response_time |-> response_time,
                                   success |-> success])
    /\ op' = "update_metrics"
    /\ result' = Returned(NoneValue)
    /\ UNCHANGED <<content, passes>>

InitMetrics ==
    /\ content = <<>>
    /\ args = <<>>
    /\ op = "none"
    /\ result = NoResult
    /\ passes = 0
    /\ state = InitialMetrics

NextMetrics == UpdatePerformanceMetrics

SpecMetrics == InitMetrics /\ [][NextMetrics]_vars

\* the number of calls made with success true
RECURSIVE SuccessfulCalls(_)
SuccessfulCalls(calls) ==
    IF calls = <<>> THEN 0
    ELSE SuccessfulCalls(Tail(calls)) + (IF Head(calls).success THEN 1 ELSE 0)

\* the sum of the response times of the calls
RECURSIVE TotalResponseTime(_)
TotalResponseTime(calls) ==
    IF calls = <<>> THEN Whole(0)
    ELSE FracAdd(TotalResponseTime(Tail(calls)), Head(calls).response_time)

Ref(address) == [ref |-> address]

\* dict[key] = value
SetItem(dict, key, value) ==
    [k \in DOMAIN dict \cup {key} |-> IF k = key THEN value ELSE dict[k]]

\* the objects _setup_llm_config builds: the one entry of config_list, then
\* the llm_config dict that refers to it
SetupLlmConfig(provider) ==
    << [model |-> IF provider = "lmstudio" THEN "llama-2-7b-chat" ELSE "gpt-4"],
       [config_list |-> Ref(1),
        temperature |-> Frac(7, 10),
        timeout |-> IF provider = "lmstudio" THEN Whole(300) ELSE Whole(120)] >>

\* the agents of _initialize_agents in the order they are created, each with
\* its key of the agent configuration and the agent_type its class passes
team_agents ==
    << [key |-> "project_manager", name |-> "ProjectManager",
        agent_type |-> <<"u","s","e","r","p","r","o","x","y">>],
       [key |-> "content_writer", name |-> "ContentWriter",
        agent_type |-> <<"a","s","s","i","s","t","a","n","t">>],
       [key |-> "content_editor", name |-> "ContentEditor",
        agent_type |-> <<"a","s","s","i","s","t","a","n","t">>],
       [key |-> "seo_specialist", name |-> "SEOSpecialist",
        agent_type |-> <<"a","s","s","i","s","t","a","n","t">>],
       [key |-> "brand_strategist", name |-> "BrandStrategist",
        agent_type |-> <<"a","s","s","i","s","t","a","n","t">>] >>

\* the settings _enhance_llm_config takes from the agent's configuration
override_keys == <<"temperature", "max_tokens", "timeout">>

\* the heap after the overrides from position i on were written to the dict at
\* address
RECURSIVE OverrideLoop(_, _, _, _)
OverrideLoop(heap, address, agent_config, i) ==
    IF i > Len(override_keys) THEN heap
    ELSE IF override_keys[i] \in DOMAIN agent_config
         THEN OverrideLoop([heap EXCEPT ![address] =
                                SetItem(@, override_keys[i],
                                        agent_config[override_keys[i]])],
                           address, agent_config, i + 1)
         ELSE OverrideLoop(heap, address, agent_config, i + 1)

\* _enhance_llm_config writing the overrides to self.llm_config itself
EnhanceLlmConfigAliased(heap, self) ==
    [heap |-> OverrideLoop(heap, self.llm_config, self.agent_config, 1),
     config |-> self.llm_config]

\* _enhance_llm_config: the overrides are written to self.llm_config.copy(),
\* a new dict with the same keys and the same value objects
EnhanceLlmConfigOf(heap, self) ==
    LET config == Len(heap) + 1
    IN  [heap |-> OverrideLoop(Append(heap, heap[self.llm_config]),
                               config, self.agent_config, 1),
         config |-> config]

\* BaseAgent.__init__ up to self.agent = self._create_agent(): a user proxy
\* is given no llm_config, an assistant the enhanced one
CreateAgentOf(heap, name, agent_type, llm_config, agent_config) ==
    LET self == [name |-> name, agent_type |-> agent_type,
                 llm_config |-> llm_config, agent_config |-> agent_config]
    IN  IF Lower(agent_type) = <<"u","s","e","r","p","r","o","x","y">>
        THEN [heap |-> heap,
              self |-> self @@
                       [agent |-> [class |-> "UserProxyAgent",
                                   llm_config |-> NoneValue]]]
        ELSE Only({ [heap |-> enhanced.heap,
                     self |-> self @@
                              [agent |-> [class |-> "AssistantAgent",
                                          llm_config |-> Ref(enhanced.config)]]]
                    : enhanced \in {EnhanceLlmConfigOf(heap, self)} })

\* {}
EmptyDict == [k \in {} |-> NoneValue]

\* the entries an agent's configuration file may hold for one agent
AgentConfigs ==
    { EmptyDict,
      [temperature |-> Frac(1, 10)],
      [temperature |-> Frac(9, 10), max_tokens |-> Whole(2000)],
      [timeout |-> Whole(5)] }

Providers == {"openai", "lmstudio"}

\* the next constructor call of _initialize_agents
InitializeAgent ==
    /\ state.pc <= Len(team_agents)
    /\ \E agent_config \in AgentConfigs :
          \E made \in {CreateAgentOf(state.heap, team_agents[state.pc].name,
                                     team_agents[state.pc].agent_type,
                                     state.llm_config, agent_config)} :
              state' = [state EXCEPT !.pc = @ + 1,
                                     !.heap = made.heap,
                                     !.agents = Append(@, made.self)]
    /\ op' = "initialize_agent"
    /\ result' = Returned(NoneValue)
    /\ UNCHANGED <<content, args, passes>>

\* create_content: GroupChatManager(groupchat=groupchat,
\* llm_config=self.llm_config)
CreateGroupChatManager ==
    /\ state.pc = Len(team_agents) + 1
    /\ state' = [state EXCEPT !.pc = @ + 1,
                              !.manager = [class |-> "GroupChatManager",
                                           llm_config |-> Ref(state.llm_config)]]
    /\ op' = "manager"
    /\ result' = Returned(NoneValue)
    /\ UNCHANGED <<content, args, passes>>

InitAgents ==
    /\ content = <<>>
    /\ args \in [provider : Providers]
    /\ op = "none"
    /\ result = NoResult
    /\ passes = 0
    /\ state = [pc |-> 1,
                heap |-> SetupLlmConfig(args.provider),
                llm_config |-> 2,
                agents |-> <<>>,
                manager |-> NoneValue]

NextAgents ==
    \/ InitializeAgent
    \/ CreateGroupChatManager

SpecAgents == InitAgents /\ [][NextAgents]_vars

\* the shared llm_config with one agent's own overrides in place
WithOwnOverrides(llm_config, agent_config) ==
    [k \in DOMAIN llm_config
           \cup (DOMAIN agent_config \cap {"temperature", "max_tokens", "timeout"})
        |-> IF k \in DOMAIN agent_config THEN agent_config[k] ELSE llm_config[k]]

\* C28: creating the five agents from the one shared llm_config dict never
\* modifies that dict: the temperature, max_tokens and timeout overrides of
\* an assistant agent are written only to that agent's own copy, so no agent
\* sees another agent's overrides and the llm_config later given to
\* GroupChatManager still has its original values.
C28_SharedConfigUntouched ==
    LET original == SetupLlmConfig(args.provider)[2]
    IN  /\ state.heap[state.llm_config] = original
        /\ \A i \in 1..Len(state.agents) :
              LET self == state.agents[i]
              IN  /\ self.llm_config = state.llm_config
                  /\ self.agent.class = "AssistantAgent" =>
                        /\ self.agent.llm_config.ref # state.llm_config
                        /\ \A j \in 1..Len(state.agents) :
                              (j # i /\ state.agents[j].agent.class = "AssistantAgent")
                                 => state.agents[j].agent.llm_config.ref
                                       # self.agent.llm_config.ref
                        /\ state.heap[self.agent.llm_config.ref]
                              = WithOwnOverrides(original, self.agent_config)
        /\ state.manager # NoneValue =>
              /\ state.manager.llm_config = Ref(state.llm_config)
              /\ state.heap[state.manager.llm_config.ref] = original

\* all five agents and the manager exist; the writer and the editor were given
\* different temperatures, the strategist a timeout
C28_Witness ==
    /\ op = "manager"
    /\ Len(state.agents) = 5
    /\ state.manager # NoneValue
    /\ state.agents[2].agent_config = [temperature |-> Frac(9, 10),
                                       max_tokens |-> Whole(2000)]
    /\ state.agents[3].agent_config = [temperature |-> Frac(1, 10)]
    /\ state.agents[5].agent_config = [timeout |-> Whole(5)]
    /\ state.heap[state.manager.llm_config.ref].temperature = Frac(7, 10)

=============================================================================
